---- MODULE Spec2Model ----
(***************************************************************************)
(* Gesture channel of gestix-runner: the SharedState mailbox through which *)
(* the camera thread hands the voted gesture to the game loop.             *)
(*                                                                         *)
(* Three SharedState classes exist in the repository; `variant` says which *)
(* one a behaviour runs:                                                   *)
(*   "mediapipe2" : gestix_mediapipe2.py  (debounce 0.12 s, consume-on-read)*)
(*   "runner"     : gestix_runner.py      (debounce 0.15 s, consume-on-read)*)
(*   "erererere"  : erererere.py          (plain write, 0.6 s staleness)   *)
(* and the recognizer specifications also run                              *)
(*   "mediapipe"  : "gestix_mediapipe2 .py", the older copy (VOTE_FRAMES 3).*)
(*                                                                         *)
(* Time is counted in centiseconds (0.12 s = 12); the clock advances when  *)
(* a thread reads it.  Every statement inside                              *)
(* a `with self._lock:` block is one step, so that the interleavings of    *)
(* the camera thread and the readers are explored statement by statement.  *)
(*                                                                         *)
(* Further specifications of this module:                                  *)
(*   SpecRec  : the recognizer alone (frame combiner and temporal voter),   *)
(*              run twice on the same frames with two string-hash salts;   *)
(*   SpecPipe : frame combiner, voter, set_gesture and get_gesture in a    *)
(*              row (gestix_mediapipe2.py and its older copy, K = 2, 3);   *)
(*   SpecLife : the life cycle of the camera thread and of the main thread *)
(*              (gestix_runner2.py __main__, intro and game loop), with    *)
(*              SpecLifeFair adding the scheduling assumptions;            *)
(*   SpecCls  : the per-hand classifier (finger flags, pinch, cascade);    *)
(*   SpecGame : GameEngine.run of gestix_runner2.py (action resolver,      *)
(*              state machine, shield and energy, boss rooms).             *)
(***************************************************************************)
EXTENDS Integers, FiniteSets, Sequences, TLC

\* ------------------------------------------------------------------ bounds
Epoch == 100        \* value of time.time() when the program starts (>> 0.0)
Horizon == 15       \* mediapipe2 / runner: the clock runs to Epoch + Horizon
StaleHorizon == 62  \* erererere: the clock runs to Epoch + StaleHorizon
MaxBuffer == 5      \* erererere: gesture_buf is followed up to MaxBuffer labels

\* ------------------------------------------------------- program constants
ChanVariants == {"mediapipe2", "runner"}
Variants == ChanVariants \cup {"erererere"}

\* Config.TRIGGER_COOLDOWN, in centiseconds
TRIGGER_COOLDOWN(v) == IF v = "mediapipe2" THEN 12 ELSE 15

\* Config.CONSUME_GESTURES
CONSUME_GESTURES(v) ==
    CASE v \in {"mediapipe2", "mediapipe"} ->
           {"Open", "Gun", "OK", "Victory", "ThumbUp", "DualOpen", "Point1"}
      [] v = "runner" ->
           {"Open", "Gun", "OK", "Victory", "ThumbUp", "DualOpen"}
      [] OTHER -> {}

\* the closed enumeration of labels the recognizer of each module produces
GestureLabels(v) ==
    CASE v \in {"mediapipe2", "mediapipe"} ->
           {"None", "OK", "Victory", "Gun", "Point1", "ThumbUp", "Fist", "Open",
            "DualOpen"}
      [] v = "runner" ->
           {"None", "OK", "Victory", "Gun", "ThumbUp", "Fist", "Open",
            "DualOpen", "Wave"}
      [] OTHER ->
           {"NONE", "OK", "Victory", "Point1", "Gun", "ThumbUp", "Open", "Fist",
            "DualOpen"}

\* the labels the camera thread is observed to hand over in a behaviour
Voted(v) == IF v = "erererere" THEN {"NONE", "Fist", "Open"} ELSE GestureLabels(v)

\* the value SharedState.__init__ gives _gesture
InitialGesture(v) == IF v = "erererere" THEN "NONE" ELSE "None"

\* the staleness window of erererere.get_gesture, in centiseconds
STALE_AFTER == 60

Consumers == {"c1", "c2"}

\* the clock steps explored: below, at and above the cooldown (3, 12, 15);
\* at and above the staleness window (30 + 30 = 60, 30 + 31 = 61)
TickSteps(v) == IF v = "erererere" THEN {30, 31} ELSE {3, 12}
LastInstant(v) == Epoch + (IF v = "erererere" THEN StaleHorizon ELSE Horizon)

\* ---------------------------------------------------------------- state
VARIABLES
    variant,        \* which module's SharedState and Config are in force
    now,            \* the wall clock, time.time()
    lock,           \* SharedState._lock: "free" or the thread holding it
    gesture,        \* SharedState._gesture
    gesture_ts,     \* SharedState._gesture_ts (mediapipe2, runner)
    last_update_ts, \* SharedState._last_update_ts (erererere)
    ppc,            \* camera thread: position
    parg,           \* camera thread: the label passed to set_gesture
    pnow,           \* camera thread: local `now` of set_gesture
    cpc,            \* readers: position, per reader
    cg,             \* readers: local `g` of get_gesture, per reader
    cts,            \* readers: local `ts` of get_gesture (erererere)
    cret,           \* readers: the value get_gesture is about to return (erererere)
    \* history (not program state)
    lastRead,       \* label read by the latest get_gesture; "-" once a
                    \* set_gesture has entered its with block since
    prevRead,       \* lastRead before the latest get_gesture
    pending,        \* latest non-neutral label written and not read since
    effLabel,       \* label of the latest completed write that took effect
    effTs,          \* its timestamp
    readsOfWrite,   \* reads that returned a consume-on-read label since the
                    \* latest write that took effect (capped at 2)
    fresh,          \* the stored label was written during the current hold
    holdReads,      \* reads that returned the held label during this hold
    sameArg,        \* this set_gesture call passes the label of the last one
    closeCall,      \* ... and is issued less than the cooldown after it
    seen,           \* readers whose current get_gesture read after the latest
                    \* completed set_gesture
    superseded,     \* the latest write that took effect replaced another label
    staleSeen,      \* a get_gesture has returned "NONE" for a stored label
    recovered,      \* ... and a later get_gesture has returned a label again
    \* recognizer (SpecRec, SpecPipe)
    hands,          \* the hands of the frame just processed, in the order
                    \* MediaPipe reports them: <<handedness, label>> each
    final,          \* final_gesture / cur: the frame-level label
    vote,           \* HandGestureRecognizer.vote / gesture_buf: the window
    voted,          \* the voted (smoothed) label returned by the recognizer
    setOrder,       \* iteration order of set(self.vote) in this process
    setOrderB,      \* ... in a second process fed the same frames
    votedB,         \* the voted label of that second process
    rpc,            \* recognizer loop: position
    scen,           \* history: frames of the scenario Open, Open, Fist, Fist,
                    \* Fist handed over so far (-1: another input)
    scenGets,       \* history: what get_gesture returned after the scenario
    \* life cycle (SpecLife)
    running,        \* SharedState._running
    cap_opened,     \* cap.isOpened(): whether the capture device opens
    camera_view,    \* SharedState._camera_view is set
    recognizer_ref, \* SharedState._recognizer_ref is set
    tpc,            \* the thread running camera_thread: position
    mpc,            \* main thread of gestix_runner2.py: position
    last_gesture,   \* camera_thread (erererere): local last_gesture
    polled,         \* main thread: the label its latest get_gesture returned
    mutated,        \* self.vote was appended to while get_acc iterates over it
    voteAccess,     \* history: the threads that have touched self.vote
    stoppedBy,      \* history: the thread that first called set_running(False)
    setCalls,       \* history: set_gesture has been called
    \* per-hand classifier (SpecCls)
    handed,         \* handedness label of the hand: "Left" or "Right"
    thumbDx,        \* thumb: <<x[4] - x[3], x[3] - x[2]>> (signs)
    fingerDy,       \* index..pinky: tip.y minus joint.y in hundredths (the
                    \* joint is the PIP in gestix_mediapipe2, the MCP in
                    \* erererere)
    pinchD,         \* distance thumb tip - index tip, in hundredths
    baseD,          \* distance wrist - middle knuckle, in hundredths
    label,          \* the label the classifier returned
    kpc,            \* classifier: position
    \* game engine (SpecGame)
    game_state,     \* GameEngine.game_state
    paused_from,    \* GameEngine._paused_from
    energy,         \* GameEngine.energy
    shield_on,      \* GameEngine.shield_on
    score,          \* GameEngine.score, in units of BOSS_SCORE_STEP
    boss_phase,     \* GameEngine.boss_phase
    boss_room,      \* GameEngine.boss_room: "none" or the class of the room
    portal_fx,      \* GameEngine.portal_fx is set
    boss_triggered, \* GameEngine._boss_triggered
    hp,             \* Player.hp is positive
    shown,          \* the label get_gesture returned in this iteration
    action,         \* the action poll_gesture_action resolved
    gpc,            \* GameEngine.run: position in the iteration
    resets,         \* history: reset_game has run in this iteration
    \* intro and game loop on the mailbox (SpecStart, SpecWave)
    intro_last,     \* IntroScreen.last_gesture
    intro_adv,      \* IntroScreen.last_advance_time has been assigned
    page,           \* IntroScreen.current_page
    skipped,        \* history: how the intro ended
    firstTick,      \* history: GameEngine.run is in its first iteration
    got,            \* history: the label the latest get_gesture returned
    wrote,          \* history: whether a set_gesture took effect since the
                    \* latest get_gesture, "same" if the stored label is
                    \* what it was, "other" if another label was stored
    \* write gate of erererere (SpecGate)
    smoothed,       \* camera_thread: local smoothed
    last_update,    \* camera_thread: local last_update
    frame_t,        \* history: the clock when the gate was last evaluated
    wpc,            \* camera_thread: position in the iteration
    qpc,            \* the reader: position in get_gesture
    qg,             \* the reader: local g of get_gesture
    qts,            \* the reader: local ts of get_gesture
    qret,           \* the value the latest get_gesture returned
    qheld           \* history: the label the reader read was then the
                    \* smoothed label, written, and has stayed it since

progVars == <<variant, now, lock, gesture, gesture_ts, last_update_ts,
              ppc, parg, pnow, cpc, cg, cts, cret>>
histVars == <<lastRead, prevRead, pending, effLabel, effTs, readsOfWrite,
              fresh, holdReads, sameArg, closeCall, seen>>
obsVars == <<superseded, staleSeen, recovered>>
recVars == <<hands, final, vote, voted, setOrder, setOrderB, votedB, rpc,
             scen, scenGets>>
lifeVars == <<running, cap_opened, camera_view, recognizer_ref, tpc, mpc,
              last_gesture, polled, mutated, voteAccess, stoppedBy, setCalls>>
clsVars == <<handed, thumbDx, fingerDy, pinchD, baseD, label, kpc>>
gameVars == <<game_state, paused_from, energy, shield_on, score, boss_phase,
              boss_room, portal_fx, boss_triggered, hp, shown, action, gpc,
              resets>>
loopVars == <<intro_last, intro_adv, page, skipped, firstTick, got, wrote>>
gateVars == <<smoothed, last_update, frame_t, wpc, qpc, qg, qts, qret, qheld>>
extVars == <<clsVars, gameVars, loopVars, gateVars>>
vars == <<progVars, histVars, obsVars, recVars, lifeVars, extVars>>

Cap2(n) == IF n >= 2 THEN 2 ELSE n + 1

\* ------------------------------------------------- SharedState operations
\* `with self._lock:` is entered only when no thread holds the lock
NoLock(l) == TRUE
LockFree(l) == l = "free"

\* set_gesture (mediapipe2, runner): the two nested tests guarding the write
SetCondNoNeutralTest(g, cur, ts, t, v) ==
    g # cur \/ (t - ts) >= TRIGGER_COOLDOWN(v)
SetCondCooldownOnly(g, cur, ts, t, v) ==
    g # "None" /\ (t - ts) >= TRIGGER_COOLDOWN(v)
SetCond(g, cur, ts, t, v) ==
    g # "None" /\ (g # cur \/ (t - ts) >= TRIGGER_COOLDOWN(v))

\* get_gesture (mediapipe2, runner): what is left in _gesture after reading g
GetResetNever(g, v) == g
GetResetAlways(g, v) == "None"
GetResetUpper(g, v) == IF g \in CONSUME_GESTURES(v) THEN "NONE" ELSE g
GetReset(g, v) == IF g \in CONSUME_GESTURES(v) THEN "None" ELSE g

\* get_gesture (erererere): the staleness test and the value returned
IsStaleMillis(t, ts) == t - ts > 600
IsStale(t, ts) == t - ts > STALE_AFTER
StaleResult(g, ts, t) == IF IsStale(t, ts) THEN "NONE" ELSE g

\* the recognizer before its first frame, where no specification runs it
RecAtRest ==
    /\ hands = <<>>
    /\ final = "-"
    /\ vote = <<>>
    /\ voted = "-"
    /\ setOrder = <<>>
    /\ setOrderB = <<>>
    /\ votedB = "-"
    /\ rpc = "off"
    /\ scen = -1
    /\ scenGets = <<>>

\* the threads before the program starts, where no specification runs them
LifeAtRest ==
    /\ running = TRUE
    /\ cap_opened = TRUE
    /\ camera_view = FALSE
    /\ recognizer_ref = FALSE
    /\ tpc = "off"
    /\ mpc = "off"
    /\ last_gesture = "-"
    /\ polled = "-"
    /\ mutated = FALSE
    /\ voteAccess = {}
    /\ stoppedBy = "-"
    /\ setCalls = FALSE

\* the classifier before it runs
ClsAtRest ==
    /\ handed = "-"
    /\ thumbDx = <<0, 0>>
    /\ fingerDy = <<0, 0, 0, 0>>
    /\ pinchD = 0
    /\ baseD = 0
    /\ label = "-"
    /\ kpc = "off"

\* the game engine before it runs
GameAtRest ==
    /\ game_state = "-"
    /\ paused_from = "-"
    /\ energy = 0
    /\ shield_on = FALSE
    /\ score = 0
    /\ boss_phase = 0
    /\ boss_room = "none"
    /\ portal_fx = FALSE
    /\ boss_triggered = FALSE
    /\ hp = FALSE
    /\ shown = "-"
    /\ action = "-"
    /\ gpc = "off"
    /\ resets = FALSE

\* the intro before it runs
LoopAtRest ==
    /\ intro_last = "-"
    /\ intro_adv = FALSE
    /\ page = 0
    /\ skipped = "-"
    /\ firstTick = FALSE
    /\ got = "-"
    /\ wrote = "-"

\* the write gate before camera_thread of erererere runs
GateAtRest ==
    /\ smoothed = "-"
    /\ last_update = 0
    /\ frame_t = 0
    /\ wpc = "off"
    /\ qpc = "off"
    /\ qg = "-"
    /\ qts = 0
    /\ qret = "-"
    /\ qheld = FALSE

ExtAtRest == ClsAtRest /\ GameAtRest /\ LoopAtRest /\ GateAtRest

\* SharedState.__init__ (and the start of the history), for the modules V
ChanInit(V) ==
    /\ variant \in V
    /\ now = Epoch
    /\ lock = "free"
    /\ gesture = InitialGesture(variant)
    /\ gesture_ts = 0
    /\ last_update_ts = 0
    /\ ppc = "loop"
    /\ parg = InitialGesture(variant)
    /\ pnow = 0
    /\ cpc = [c \in Consumers |-> "idle"]
    /\ cg = [c \in Consumers |-> "-"]
    /\ cts = [c \in Consumers |-> 0]
    /\ cret = [c \in Consumers |-> "-"]
    /\ lastRead = "-"
    /\ prevRead = "-"
    /\ pending = "-"
    /\ effLabel = InitialGesture(variant)
    /\ effTs = 0
    /\ readsOfWrite = 0
    /\ fresh = FALSE
    /\ holdReads = 0
    /\ sameArg = FALSE
    /\ closeCall = FALSE
    /\ seen = {}
    /\ superseded = FALSE
    /\ staleSeen = FALSE
    /\ recovered = FALSE

Init == ChanInit(Variants) /\ RecAtRest /\ LifeAtRest /\ ExtAtRest

\* time.time(): the clock is read d centiseconds after its previous reading
Clock(t, v) == {t + d : d \in {0} \cup TickSteps(v)} \cap (0 .. LastInstant(v))

\* ---------------------------------------------- mediapipe2 / runner: writer
\* camera_thread: recog.recognize(rgb) yields the voted label v
P_Recognize ==
    /\ variant \in ChanVariants
    /\ ppc = "loop"
    /\ \E v \in Voted(variant) :
        /\ parg' = v
        /\ sameArg' = (v = parg)
        /\ IF v # parg
           THEN fresh' = FALSE /\ holdReads' = 0
           ELSE UNCHANGED <<fresh, holdReads>>
    /\ ppc' = "set_acquire"
    /\ UNCHANGED <<variant, now, lock, gesture, gesture_ts, last_update_ts,
                   pnow, cpc, cg, cts, cret>>
    /\ UNCHANGED <<lastRead, prevRead, pending, effLabel, effTs, readsOfWrite,
                   closeCall, seen>>
    /\ UNCHANGED <<obsVars, recVars, lifeVars, extVars>>

\* set_gesture: with self._lock
P_Acquire ==
    /\ ppc = "set_acquire"
    /\ LockFree(lock)
    /\ lock' = "cam"
    /\ ppc' = "set_now"
    /\ lastRead' = "-"
    /\ prevRead' = "-"
    /\ UNCHANGED <<variant, now, gesture, gesture_ts, last_update_ts,
                   parg, pnow, cpc, cg, cts, cret>>
    /\ UNCHANGED <<pending, effLabel, effTs, readsOfWrite, fresh, holdReads,
                   sameArg, closeCall, seen>>
    /\ UNCHANGED <<obsVars, recVars, lifeVars, extVars>>

\* set_gesture: now = time.time()
P_Now ==
    /\ ppc = "set_now"
    /\ now' \in Clock(now, variant)
    /\ pnow' = now'
    /\ closeCall' = (now' - pnow < TRIGGER_COOLDOWN(variant))
    /\ ppc' = "set_test"
    /\ UNCHANGED <<variant, lock, gesture, gesture_ts, last_update_ts,
                   parg, cpc, cg, cts, cret>>
    /\ UNCHANGED <<lastRead, prevRead, pending, effLabel, effTs, readsOfWrite,
                   fresh, holdReads, sameArg, seen>>
    /\ UNCHANGED <<obsVars, recVars, lifeVars, extVars>>

\* set_gesture: if gesture != "None": if gesture != self._gesture or ...
P_Test ==
    /\ ppc = "set_test"
    /\ ppc' = IF SetCond(parg, gesture, gesture_ts, pnow, variant)
              THEN "set_label" ELSE "set_release"
    /\ UNCHANGED <<variant, now, lock, gesture, gesture_ts, last_update_ts,
                   parg, pnow, cpc, cg, cts, cret>>
    /\ UNCHANGED histVars
    /\ UNCHANGED <<obsVars, recVars, lifeVars, extVars>>

\* set_gesture: self._gesture = gesture
P_Label ==
    /\ ppc = "set_label"
    /\ gesture' = parg
    /\ ppc' = "set_ts"
    /\ readsOfWrite' = 0
    /\ fresh' = TRUE
    /\ pending' = IF parg # "None" THEN parg ELSE pending
    /\ UNCHANGED <<variant, now, lock, gesture_ts, last_update_ts,
                   parg, pnow, cpc, cg, cts, cret>>
    /\ UNCHANGED <<lastRead, prevRead, effLabel, effTs, holdReads, sameArg,
                   closeCall, seen>>
    /\ UNCHANGED <<obsVars, recVars, lifeVars, extVars>>

\* set_gesture: self._gesture_ts = now
P_Ts ==
    /\ ppc = "set_ts"
    /\ gesture_ts' = pnow
    /\ ppc' = "set_written"
    /\ UNCHANGED <<variant, now, lock, gesture, last_update_ts,
                   parg, pnow, cpc, cg, cts, cret>>
    /\ UNCHANGED histVars
    /\ UNCHANGED <<obsVars, recVars, lifeVars, extVars>>

\* set_gesture: the with block is left after a write
P_ReleaseWritten ==
    /\ ppc = "set_written"
    /\ lock' = IF lock = "cam" THEN "free" ELSE lock
    /\ ppc' = "loop"
    /\ effLabel' = parg
    /\ effTs' = pnow
    /\ UNCHANGED <<variant, now, gesture, gesture_ts, last_update_ts,
                   parg, pnow, cpc, cg, cts, cret>>
    /\ UNCHANGED <<lastRead, prevRead, pending, readsOfWrite, fresh, holdReads,
                   sameArg, closeCall, seen>>
    /\ superseded' = (parg # effLabel)
    /\ UNCHANGED <<staleSeen, recovered, recVars, lifeVars, extVars>>

\* set_gesture: the with block is left, nothing was written
P_Release ==
    /\ ppc = "set_release"
    /\ lock' = IF lock = "cam" THEN "free" ELSE lock
    /\ ppc' = "loop"
    /\ UNCHANGED <<variant, now, gesture, gesture_ts, last_update_ts,
                   parg, pnow, cpc, cg, cts, cret>>
    /\ UNCHANGED histVars
    /\ UNCHANGED <<obsVars, recVars, lifeVars, extVars>>

\* ---------------------------------------------- mediapipe2 / runner: reader
\* get_gesture: with self._lock
C_Acquire(c) ==
    /\ variant \in ChanVariants
    /\ cpc[c] = "idle"
    /\ LockFree(lock)
    /\ lock' = c
    /\ cpc' = [cpc EXCEPT ![c] = "get_read"]
    /\ UNCHANGED <<variant, now, gesture, gesture_ts, last_update_ts,
                   ppc, parg, pnow, cg, cts, cret>>
    /\ UNCHANGED histVars
    /\ UNCHANGED <<obsVars, recVars, lifeVars, extVars>>

\* get_gesture: g = self._gesture
C_Read(c) ==
    /\ cpc[c] = "get_read"
    /\ cg' = [cg EXCEPT ![c] = gesture]
    /\ cpc' = [cpc EXCEPT ![c] = "get_reset"]
    /\ lastRead' = gesture
    /\ prevRead' = lastRead
    /\ pending' = "-"
    /\ readsOfWrite' = IF gesture \in CONSUME_GESTURES(variant)
                       THEN Cap2(readsOfWrite) ELSE readsOfWrite
    /\ holdReads' = IF /\ gesture \in CONSUME_GESTURES(variant)
                       /\ gesture = parg
                       /\ fresh
                    THEN Cap2(holdReads) ELSE holdReads
    /\ UNCHANGED <<variant, now, lock, gesture, gesture_ts, last_update_ts,
                   ppc, parg, pnow, cts, cret>>
    /\ UNCHANGED <<effLabel, effTs, fresh, sameArg, closeCall, seen>>
    /\ UNCHANGED <<obsVars, recVars, lifeVars, extVars>>

\* get_gesture: if g in Config.CONSUME_GESTURES: self._gesture = "None"
C_Reset(c) ==
    /\ cpc[c] = "get_reset"
    /\ gesture' = GetReset(cg[c], variant)
    /\ cpc' = [cpc EXCEPT ![c] = "get_release"]
    /\ UNCHANGED <<variant, now, lock, gesture_ts, last_update_ts,
                   ppc, parg, pnow, cg, cts, cret>>
    /\ UNCHANGED histVars
    /\ UNCHANGED <<obsVars, recVars, lifeVars, extVars>>

\* get_gesture: return g (leaving the with block)
C_Return(c) ==
    /\ cpc[c] = "get_release"
    /\ lock' = IF lock = c THEN "free" ELSE lock
    /\ cpc' = [cpc EXCEPT ![c] = "idle"]
    /\ cg' = [cg EXCEPT ![c] = "-"]
    /\ UNCHANGED <<variant, now, gesture, gesture_ts, last_update_ts,
                   ppc, parg, pnow, cts, cret>>
    /\ UNCHANGED histVars
    /\ UNCHANGED <<obsVars, recVars, lifeVars, extVars>>

NextChan ==
    \/ P_Recognize
    \/ P_Acquire
    \/ P_Now
    \/ P_Test
    \/ P_Label
    \/ P_Ts
    \/ P_ReleaseWritten
    \/ P_Release
    \/ \E c \in Consumers : C_Acquire(c)
    \/ \E c \in Consumers : C_Read(c)
    \/ \E c \in Consumers : C_Reset(c)
    \/ \E c \in Consumers : C_Return(c)

\* ------------------------------------------------------- erererere: writer
\* camera_thread: shared.set_gesture(smoothed)
E_Call ==
    /\ variant = "erererere"
    /\ ppc = "loop"
    /\ \E v \in Voted(variant) : parg' = v
    /\ ppc' = "eset_acquire"
    /\ UNCHANGED <<variant, now, lock, gesture, gesture_ts, last_update_ts,
                   pnow, cpc, cg, cts, cret>>
    /\ UNCHANGED histVars
    /\ UNCHANGED <<obsVars, recVars, lifeVars, extVars>>

\* set_gesture: with self._lock
E_SetAcquire ==
    /\ ppc = "eset_acquire"
    /\ LockFree(lock)
    /\ lock' = "cam"
    /\ ppc' = "eset_label"
    /\ UNCHANGED <<variant, now, gesture, gesture_ts, last_update_ts,
                   parg, pnow, cpc, cg, cts, cret>>
    /\ UNCHANGED histVars
    /\ UNCHANGED <<obsVars, recVars, lifeVars, extVars>>

\* set_gesture: self._gesture = g
E_SetLabel ==
    /\ ppc = "eset_label"
    /\ gesture' = parg
    /\ ppc' = "eset_ts"
    /\ seen' = {}
    /\ UNCHANGED <<variant, now, lock, gesture_ts, last_update_ts,
                   parg, pnow, cpc, cg, cts, cret>>
    /\ UNCHANGED <<lastRead, prevRead, pending, effLabel, effTs, readsOfWrite,
                   fresh, holdReads, sameArg, closeCall>>
    /\ UNCHANGED <<obsVars, recVars, lifeVars, extVars>>

\* set_gesture: self._last_update_ts = time.time()
E_SetTs ==
    /\ ppc = "eset_ts"
    /\ now' \in Clock(now, variant)
    /\ last_update_ts' = now'
    /\ ppc' = "eset_release"
    /\ UNCHANGED <<variant, lock, gesture, gesture_ts,
                   parg, pnow, cpc, cg, cts, cret>>
    /\ UNCHANGED histVars
    /\ UNCHANGED <<obsVars, recVars, lifeVars, extVars>>

\* set_gesture: the with block is left
E_SetRelease ==
    /\ ppc = "eset_release"
    /\ lock' = IF lock = "cam" THEN "free" ELSE lock
    /\ ppc' = "loop"
    /\ effLabel' = parg
    /\ effTs' = last_update_ts
    /\ UNCHANGED <<variant, now, gesture, gesture_ts, last_update_ts,
                   parg, pnow, cpc, cg, cts, cret>>
    /\ UNCHANGED <<lastRead, prevRead, pending, readsOfWrite, fresh, holdReads,
                   sameArg, closeCall, seen>>
    /\ UNCHANGED <<obsVars, recVars, lifeVars, extVars>>

\* ------------------------------------------------------- erererere: reader
\* get_gesture: with self._lock
E_Acquire(c) ==
    /\ variant = "erererere"
    /\ cpc[c] = "idle"
    /\ LockFree(lock)
    /\ lock' = c
    /\ cpc' = [cpc EXCEPT ![c] = "eget_g"]
    /\ UNCHANGED <<variant, now, gesture, gesture_ts, last_update_ts,
                   ppc, parg, pnow, cg, cts, cret>>
    /\ UNCHANGED histVars
    /\ UNCHANGED <<obsVars, recVars, lifeVars, extVars>>

\* get_gesture: g = self._gesture
E_ReadG(c) ==
    /\ cpc[c] = "eget_g"
    /\ cg' = [cg EXCEPT ![c] = gesture]
    /\ cpc' = [cpc EXCEPT ![c] = "eget_ts"]
    /\ UNCHANGED <<variant, now, lock, gesture, gesture_ts, last_update_ts,
                   ppc, parg, pnow, cts, cret>>
    /\ UNCHANGED histVars
    /\ UNCHANGED <<obsVars, recVars, lifeVars, extVars>>

\* get_gesture: ts = self._last_update_ts
E_ReadTs(c) ==
    /\ cpc[c] = "eget_ts"
    /\ cts' = [cts EXCEPT ![c] = last_update_ts]
    /\ cpc' = [cpc EXCEPT ![c] = "eget_release"]
    /\ seen' = seen \cup {c}
    /\ UNCHANGED <<variant, now, lock, gesture, gesture_ts, last_update_ts,
                   ppc, parg, pnow, cg, cret>>
    /\ UNCHANGED <<lastRead, prevRead, pending, effLabel, effTs, readsOfWrite,
                   fresh, holdReads, sameArg, closeCall>>
    /\ UNCHANGED <<obsVars, recVars, lifeVars, extVars>>

\* get_gesture: the with block is left
E_Release(c) ==
    /\ cpc[c] = "eget_release"
    /\ lock' = IF lock = c THEN "free" ELSE lock
    /\ cpc' = [cpc EXCEPT ![c] = "eget_check"]
    /\ UNCHANGED <<variant, now, gesture, gesture_ts, last_update_ts,
                   ppc, parg, pnow, cg, cts, cret>>
    /\ UNCHANGED histVars
    /\ UNCHANGED <<obsVars, recVars, lifeVars, extVars>>

\* get_gesture: if time.time() - ts > 0.6: "NONE" else g
E_Check(c) ==
    /\ cpc[c] = "eget_check"
    /\ now' \in Clock(now, variant)
    /\ cret' = [cret EXCEPT ![c] = StaleResult(cg[c], cts[c], now')]
    /\ cpc' = [cpc EXCEPT ![c] = "eget_return"]
    /\ UNCHANGED <<variant, lock, gesture, gesture_ts, last_update_ts,
                   ppc, parg, pnow, cg, cts>>
    /\ UNCHANGED histVars
    /\ staleSeen' = (staleSeen \/ (cg[c] # "NONE" /\ cret'[c] = "NONE"))
    /\ recovered' = (recovered \/ (staleSeen /\ cret'[c] # "NONE"))
    /\ UNCHANGED <<superseded, recVars, lifeVars, extVars>>

\* get_gesture: return
E_Return(c) ==
    /\ cpc[c] = "eget_return"
    /\ cpc' = [cpc EXCEPT ![c] = "idle"]
    /\ cg' = [cg EXCEPT ![c] = "-"]
    /\ cts' = [cts EXCEPT ![c] = 0]
    /\ cret' = [cret EXCEPT ![c] = "-"]
    /\ seen' = seen \ {c}
    /\ UNCHANGED <<variant, now, lock, gesture, gesture_ts, last_update_ts,
                   ppc, parg, pnow>>
    /\ UNCHANGED <<lastRead, prevRead, pending, effLabel, effTs, readsOfWrite,
                   fresh, holdReads, sameArg, closeCall>>
    /\ UNCHANGED <<obsVars, recVars, lifeVars, extVars>>

NextStale ==
    \/ E_Call
    \/ E_SetAcquire
    \/ E_SetLabel
    \/ E_SetTs
    \/ E_SetRelease
    \/ \E c \in Consumers : E_Acquire(c)
    \/ \E c \in Consumers : E_ReadG(c)
    \/ \E c \in Consumers : E_ReadTs(c)
    \/ \E c \in Consumers : E_Release(c)
    \/ \E c \in Consumers : E_Check(c)
    \/ \E c \in Consumers : E_Return(c)

Next == NextChan \/ NextStale

Spec == Init /\ [][Next]_vars

\* ------------------------------------------------------------- properties
\* the threads inside a `with self._lock:` block
InCritical ==
    {c \in Consumers :
        cpc[c] \in {"get_read", "get_reset", "get_release",
                    "eget_g", "eget_ts", "eget_release"}}
    \cup (IF ppc \in {"set_now", "set_test", "set_label", "set_ts",
                      "set_written", "set_release",
                      "eset_label", "eset_ts", "eset_release"}
          THEN {"cam"} ELSE {})

\* reader c executes `g = self._gesture` (mediapipe2, runner)
ReadsNow(c) == cpc[c] = "get_read" /\ cpc'[c] = "get_reset"

\* C1: set_gesture("None") is a no-op: no step of a set_gesture("None") call
\* changes the stored label or the stored timestamp, and a non-neutral label
\* that was written and not read since is what the next get_gesture reads,
\* whatever neutral writes came in between.
C1_NeutralWriteIsNoOp ==
    [][ /\ (variant \in ChanVariants /\ parg = "None" /\ ppc' # ppc)
            => (gesture' = gesture /\ gesture_ts' = gesture_ts)
        /\ \A c \in Consumers :
            (ReadsNow(c) /\ pending # "-") => cg'[c] = pending ]_vars

\* a reader has read a consume-on-read label after a set_gesture("None")
\* call that followed the write of that label had completed
C1_Witness ==
    \E c \in Consumers :
        /\ cpc[c] = "get_reset"
        /\ cg[c] \in CONSUME_GESTURES(variant)
        /\ parg = "None"
        /\ ppc = "loop"

\* C2: with a consume-on-read label X stored, a get_gesture reads X, and a
\* get_gesture that follows one that read X, with no set_gesture between
\* them, reads "None".
C2_ConsumeOnRead ==
    variant \in ChanVariants =>
        /\ \A c \in Consumers : cpc[c] = "get_reset" => cg[c] = gesture
        /\ prevRead \in CONSUME_GESTURES(variant) => lastRead = "None"

\* two get_gesture calls in a row, the first read a consume-on-read label
C2_Witness ==
    /\ prevRead \in CONSUME_GESTURES(variant)
    /\ lastRead = "None"

\* C3: while one consume-on-read label is held (every frame votes it),
\* get_gesture returns it at most once for that hold.
C3_OncePerHold == holdReads <= 1

\* C4: a label outside CONSUME_GESTURES is read unchanged by every
\* get_gesture, call after call, and get_gesture leaves it stored, until a
\* write of another label takes effect.
C4_LevelLabelPersists ==
    variant \in ChanVariants =>
        /\ \A c \in Consumers :
            (cpc[c] = "get_release" /\ cg[c] \notin CONSUME_GESTURES(variant))
                => gesture = cg[c]
        /\ \A c \in Consumers :
            (/\ cpc[c] \in {"get_reset", "get_release"}
             /\ effLabel \notin CONSUME_GESTURES(variant))
                => cg[c] = effLabel
        /\ (prevRead \notin CONSUME_GESTURES(variant) /\ prevRead # "-")
                => lastRead = prevRead

\* two get_gesture calls in a row have read the level label Fist
C4_Witness ==
    /\ prevRead = "Fist"
    /\ lastRead = "Fist"
    /\ gesture = "Fist"

\* C5 as claimed: of two set_gesture(X) calls with the same non-neutral X
\* issued less than TRIGGER_COOLDOWN apart, the second does not change the
\* stored timestamp; a set_gesture(Y) with a non-neutral Y other than the
\* stored label always proceeds to overwrite.
C5_AsClaimed ==
    [][ /\ (/\ ppc = "set_ts" /\ ppc' = "set_written"
            /\ parg # "None" /\ sameArg /\ closeCall)
            => gesture_ts' = gesture_ts
        /\ (/\ ppc = "set_test" /\ ppc' # ppc
            /\ parg # "None" /\ parg # gesture)
            => ppc' = "set_label" ]_vars

\* C5 amended: a set_gesture(X) whose X is the stored label and which is
\* issued less than TRIGGER_COOLDOWN after the stored timestamp writes
\* nothing; every other non-neutral set_gesture, in particular one whose
\* label differs from the stored one, writes its label and its own time.
C5_Debounce ==
    variant \in ChanVariants =>
        /\ ppc = "set_release" =>
              \/ parg = "None"
              \/ (parg = gesture /\ pnow - gesture_ts < TRIGGER_COOLDOWN(variant))
        /\ ppc = "set_label" =>
              /\ parg # "None"
              /\ (parg # gesture \/ pnow - gesture_ts >= TRIGGER_COOLDOWN(variant))
        /\ ppc = "set_written" => (gesture = parg /\ gesture_ts = pnow)

\* a repeated label arrived inside the cooldown and leaves without writing
C5_Witness ==
    /\ ppc = "set_release"
    /\ parg # "None"
    /\ parg = gesture
    /\ sameArg
    /\ pnow > gesture_ts

\* C6: at most one thread is inside a with-self._lock block, and the
\* label/timestamp pair a reader finds is the initial pair or the pair of
\* one completed write (the label possibly reset by a consuming read).
C6_MutualExclusion ==
    /\ Cardinality(InCritical) <= 1
    /\ \A c \in Consumers :
        cpc[c] \in {"get_read", "get_reset", "get_release"}
            => (gesture_ts = effTs /\ gesture \in {effLabel, "None"})
    /\ \A c \in Consumers :
        cpc[c] = "eget_release" => (cg[c] = effLabel /\ cts[c] = effTs)

\* a reader is inside get_gesture while the camera thread waits to enter
\* set_gesture, after a write has taken effect
C6_Witness ==
    \E c \in Consumers :
        /\ cpc[c] = "get_reset"
        /\ ppc = "set_acquire"
        /\ effTs >= Epoch

\* C7: one write of a consume-on-read label that took effect is returned to
\* at most one get_gesture, also with several readers.
C7_ReadAndResetAtomic == readsOfWrite <= 1

\* one reader got the label, the other one reads "None" afterwards
C7_Witness ==
    \E c \in Consumers :
        /\ cpc[c] = "get_reset"
        /\ cg[c] = "None"
        /\ readsOfWrite = 1
        /\ effLabel \in CONSUME_GESTURES(variant)

\* C8: a get_gesture returns "None" or the label of the latest write that
\* took effect and completed before it; never an older label.
C8_MostRecentWrite ==
    variant \in ChanVariants =>
        \A c \in Consumers :
            cpc[c] \in {"get_reset", "get_release"} => cg[c] \in {"None", effLabel}

\* a reader has read the newer label after it replaced an older one
C8_Witness ==
    \E c \in Consumers :
        /\ cpc[c] = "get_reset"
        /\ superseded
        /\ cg[c] = effLabel
        /\ cg[c] # "None"

\* C9 (erererere): when get_gesture compares the clock, it returns "NONE" if
\* more than 0.6 s have passed since the last completed set_gesture (or none
\* was made yet), and it returns that set_gesture's label when it read after
\* it and at most 0.6 s have passed.
C9_Staleness ==
    [][ \A c \in Consumers :
          (cpc[c] = "eget_check" /\ cpc'[c] = "eget_return") =>
              /\ (now' - effTs > STALE_AFTER) => cret'[c] = "NONE"
              /\ (c \in seen /\ now' - effTs <= STALE_AFTER) => cret'[c] = effLabel
      ]_vars

\* a stored label was masked as "NONE", then a label was returned again
C9_Witness == recovered

\* C10: the stored label is the neutral label initially and a member of the
\* gesture enumeration ever after.
C10_LabelInEnumeration ==
    /\ (variant \in ChanVariants => gesture = "None")
    /\ [](gesture \in GestureLabels(variant))

\* a consume-on-read label was written, read and reset
C10_Witness ==
    /\ variant \in ChanVariants
    /\ lock = "free"
    /\ gesture = "None"
    /\ effLabel \in CONSUME_GESTURES(variant)
    /\ readsOfWrite = 1

\* C33: every get_gesture that reads a consume-on-read label X is the first
\* read since the latest write that took effect, that write wrote X, and the
\* read leaves "None" stored: the reads that return X never outnumber the
\* writes of X that took effect, and between two consecutive effective
\* writes at most one read returns a consume-on-read label.
C33_ReadsBoundedByWrites ==
    [][ \A c \in Consumers :
          /\ (ReadsNow(c) /\ gesture \in CONSUME_GESTURES(variant))
                => (readsOfWrite = 0 /\ effLabel = gesture)
          /\ (/\ cpc[c] = "get_reset" /\ cpc'[c] = "get_release"
              /\ cg[c] \in CONSUME_GESTURES(variant))
                => gesture' = "None" ]_vars

\* gestix_mediapipe2: the one read of an effective write of X has returned X
\* and left "None" behind, the camera thread being between two frames
C33_Witness ==
    \E c \in Consumers :
        /\ variant = "mediapipe2"
        /\ cpc[c] = "get_release"
        /\ cg[c] \in CONSUME_GESTURES(variant)
        /\ cg[c] = effLabel
        /\ gesture = "None"
        /\ readsOfWrite = 1
        /\ ppc = "loop"

\* ------------------------------------------------------------ recognizer
\* the state of the channel no recognizer or life-cycle action touches
chanRest == <<now, gesture_ts, last_update_ts, ppc, parg, pnow, cpc, cg, cts,
              cret, histVars, obsVars>>

RecVariants == {"mediapipe2", "mediapipe", "erererere"}
PipeVariants == {"mediapipe2", "mediapipe"}

\* Config.VOTE_FRAMES; erererere: the maxlen of gesture_buf
VOTE_FRAMES(v) ==
    CASE v = "mediapipe" -> 3
      [] v = "erererere" -> 7
      [] OTHER -> 2
\* erererere: the default k of _smooth_majority
SMOOTH_K == 5
\* Config.MAX_HANDS, max_num_hands
MAX_HANDS == 2

Handedness == {"Left", "Right"}
\* the per-hand labels fed in: neutral, a consume-on-read one, a level one
HandLabels(v) == {InitialGesture(v), "Open", "Fist"}
FrameLabels(v) == HandLabels(v) \cup {"DualOpen"}
\* res.multi_handedness / res.multi_hand_landmarks of one frame, classified
FrameTable ==
    [v \in {"None", "NONE"} |->
       UNION {[1 .. n -> Handedness \X {v, "Open", "Fist"}] :
                n \in 0 .. MAX_HANDS}]
Frames(v) == FrameTable[InitialGesture(v)]

MaxOf(S) == CHOOSE i \in S : \A j \in S : j <= i
MinOf(S) == CHOOSE i \in S : \A j \in S : i <= j
Count(w, x) == Cardinality({i \in 1 .. Len(w) : w[i] = x})
\* the labels of w whose count in w is maximal
Modes(w) ==
    LET cnt == [i \in 1 .. Len(w) |-> Count(w, w[i])]
        top == MaxOf({cnt[i] : i \in 1 .. Len(w)})
    IN  {w[i] : i \in {j \in 1 .. Len(w) : cnt[j] = top}}

\* recognize: raw_g[side] once every hand has been classified; the sort that
\* puts Right first is stable, so the last hand reported for a side wins
RawG(f, side) ==
    LET I == {i \in 1 .. Len(f) : f[i][1] = side}
    IN  IF I = {} THEN "None" ELSE f[MaxOf(I)][2]

\* recognize (gestix_mediapipe2.py and its older copy): final_gesture
CombineMediapipe(f) ==
    IF Len(f) = 0 THEN "None"
    ELSE IF RawG(f, "Left") = "Open" /\ RawG(f, "Right") = "Open"
         THEN "DualOpen"
         ELSE IF RawG(f, "Right") # "None" THEN RawG(f, "Right")
              ELSE RawG(f, "Left")

\* camera_thread (erererere.py): cur, from single_labels in reported order
CombineErererere(f) ==
    LET single_labels == [i \in 1 .. Len(f) |-> f[i][2]]
        I == {i \in 1 .. Len(f) : single_labels[i] # "NONE"}
    IN  IF Len(single_labels) >= 2 /\ Count(single_labels, "Open") >= 2
        THEN "DualOpen"
        ELSE IF I = {} THEN "NONE" ELSE single_labels[MinOf(I)]

CombinePriorityFirst(f, v) ==
    LET I == {i \in 1 .. Len(f) : f[i][2] # InitialGesture(v)}
        R == {i \in I : f[i][1] = "Right"}
    IN  IF I = {} THEN InitialGesture(v)
        ELSE IF R # {} THEN f[MaxOf(R)][2] ELSE f[MaxOf(I)][2]
Combine(f, v) ==
    IF v = "erererere" THEN CombineErererere(f) ELSE CombineMediapipe(f)

\* deque(maxlen=k).append(x)
PushUnlessNeutral(w, x, k) ==
    IF x \in {"None", "NONE"} THEN w
    ELSE IF Len(w) >= k THEN Append(SubSeq(w, 2, Len(w)), x) ELSE Append(w, x)
PushWindow(w, x, k) ==
    IF Len(w) >= k THEN Append(SubSeq(w, 2, Len(w)), x) ELSE Append(w, x)

\* the iteration orders of set(self.vote): string hashes are salted per
\* process, so the order is fixed within a process and differs between two
Orders ==
    {o \in [1 .. 4 -> {"None", "Open", "Fist", "DualOpen"}] :
       \A i, j \in DOMAIN o : i # j => o[i] # o[j]}
SetOrders(v) == IF v = "erererere" THEN {<<>>} ELSE Orders
Reverse(o) == [i \in DOMAIN o |-> o[Len(o) + 1 - i]]
\* the orders explored for a second process: the same one and the opposite one
OtherOrders(o) == {o, Reverse(o)}

\* max(set(self.vote), key=self.vote.count): max returns the first label, in
\* the iteration order of the set, whose count is maximal
VoteSet(w, ord) ==
    LET c == <<Count(w, ord[1]), Count(w, ord[2]), Count(w, ord[3]),
               Count(w, ord[4])>>
    IN  ord[CHOOSE i \in 1 .. 4 : /\ \A j \in 1 .. 4 : c[j] <= c[i]
                                  /\ \A j \in 1 .. (i - 1) : c[j] < c[i]]

\* _smooth_majority: Counter(list(buffer)[-k:]).most_common(1)[0][0]; the
\* Counter keeps first-seen order and most_common(1) the first maximum
smooth_majority(buffer, k) ==
    LET s == IF Len(buffer) > k
             THEN SubSeq(buffer, Len(buffer) - k + 1, Len(buffer))
             ELSE buffer
    IN  s[MinOf({i \in 1 .. Len(s) : s[i] \in Modes(s)})]

VoteNewest(w, ord, v) == IF w = <<>> THEN InitialGesture(v) ELSE w[Len(w)]
Vote(w, ord, v) ==
    IF w = <<>> THEN InitialGesture(v)
    ELSE IF v = "erererere" THEN smooth_majority(w, SMOOTH_K)
         ELSE VoteSet(w, ord)

\* set_gesture (gestix_mediapipe2.py) where the clock is not tracked:
\* elapsed says whether now - _gesture_ts >= TRIGGER_COOLDOWN
SetCondElapsedOnly(g, cur, elapsed) == g # "None" /\ g # cur /\ elapsed
SetCondElapsed(g, cur, elapsed) == g # "None" /\ (g # cur \/ elapsed)

\* the frames (Right=Open) twice, then (Right=Fist) three times
ScenarioFrames ==
    << <<<<"Right", "Open">>>>, <<<<"Right", "Open">>>>,
       <<<<"Right", "Fist">>>>, <<<<"Right", "Fist">>>>,
       <<<<"Right", "Fist">>>> >>

\* HandGestureRecognizer.__init__ in two processes; no channel attached
InitRec ==
    /\ ChanInit(RecVariants)
    /\ LifeAtRest
    /\ ExtAtRest
    /\ hands = <<>>
    /\ final = "-"
    /\ vote = <<>>
    /\ voted = "-"
    /\ votedB = "-"
    /\ setOrder \in SetOrders(variant)
    /\ setOrderB \in OtherOrders(setOrder)
    /\ rpc = "capture"
    /\ scen = -1
    /\ scenGets = <<>>

\* SharedState.__init__ and HandGestureRecognizer.__init__ in one process
InitPipe ==
    /\ ChanInit(PipeVariants)
    /\ LifeAtRest
    /\ ExtAtRest
    /\ hands = <<>>
    /\ final = "-"
    /\ vote = <<>>
    /\ voted = "-"
    /\ votedB = "-"
    /\ setOrder \in SetOrders(variant)
    /\ setOrderB = setOrder
    /\ rpc = "capture"
    /\ scen = 0
    /\ scenGets = <<>>

\* camera_thread: cap.read() delivers a frame and recog.recognize(rgb) (the
\* loop body of erererere) processes it: hands.process finds the hands f,
\* they are combined, the frame-level label is pushed and the window voted
\* on (in both processes)
R_Recognize ==
    /\ rpc = "capture"
    /\ Len(vote) < MaxBuffer
    /\ \E f \in Frames(variant) :
         /\ hands' = f
         /\ final' = Combine(f, variant)
         /\ scen' = IF scen \in 0 .. 4 /\ f = ScenarioFrames[scen + 1]
                    THEN scen ELSE -1
    /\ vote' = PushWindow(vote, final', VOTE_FRAMES(variant))
    /\ voted' = Vote(vote', setOrder, variant)
    /\ votedB' = Vote(vote', setOrderB, variant)
    /\ rpc' = "voted"
    /\ UNCHANGED <<setOrder, setOrderB, scenGets>>
    /\ UNCHANGED <<variant, lock, gesture, chanRest, lifeVars, extVars>>

\* camera_thread: the loop goes on with the next frame (SpecRec, where the
\* hand-over of the voted label is left to SpecPipe and Spec)
R_Next ==
    /\ rpc = "voted"
    /\ rpc' = "capture"
    /\ hands' = <<>>
    /\ UNCHANGED <<final, vote, voted, votedB, setOrder, setOrderB,
                   scen, scenGets>>
    /\ UNCHANGED <<variant, lock, gesture, chanRest, lifeVars, extVars>>

\* camera_thread: shared.set_gesture(voted), the whole with block at once
R_SetGesture ==
    /\ rpc = "voted"
    /\ \E elapsed \in BOOLEAN :
         gesture' = IF SetCondElapsed(voted, gesture, elapsed)
                    THEN voted ELSE gesture
    /\ rpc' = "capture"
    /\ scen' = IF scen \in 0 .. 4 THEN scen + 1 ELSE -1
    /\ hands' = <<>>
    /\ UNCHANGED <<final, vote, voted, votedB, setOrder, setOrderB, scenGets>>
    /\ UNCHANGED <<variant, lock, chanRest, lifeVars, extVars>>

\* the consumer: shared.get_gesture(), the whole with block at once
R_GetGesture ==
    /\ gesture' = GetReset(gesture, variant)
    /\ scenGets' = IF scen = 5 /\ Len(scenGets) < 2
                   THEN Append(scenGets, gesture) ELSE scenGets
    /\ scen' = IF scen = 5 THEN scen ELSE -1
    /\ UNCHANGED <<hands, final, vote, voted, votedB, setOrder, setOrderB, rpc>>
    /\ UNCHANGED <<variant, lock, chanRest, lifeVars, extVars>>

\* camera_thread: ok, frame = cap.read() reports failure
\* (if not ok or frame is None: time.sleep(0.02); continue)
R_ReadFails ==
    /\ rpc = "capture"
    /\ rpc' = "failed"
    /\ UNCHANGED <<hands, final, vote, voted, votedB, setOrder, setOrderB,
                   scen, scenGets>>
    /\ UNCHANGED <<variant, lock, gesture, chanRest, lifeVars, extVars>>

\* camera_thread: after the sleep the loop goes on with the next read
R_Continue ==
    /\ rpc = "failed"
    /\ rpc' = "capture"
    /\ UNCHANGED <<hands, final, vote, voted, votedB, setOrder, setOrderB,
                   scen, scenGets>>
    /\ UNCHANGED <<variant, lock, gesture, chanRest, lifeVars, extVars>>

NextRec == R_Recognize \/ R_Next \/ R_ReadFails \/ R_Continue
SpecRec == InitRec /\ [][NextRec]_vars

NextPipe == R_Recognize \/ R_SetGesture \/ R_GetGesture
SpecPipe == InitPipe /\ [][NextPipe]_vars

\* ------------------------------------------- properties of the recognizer
\* the step in which recognize processes a frame
Recognizes == rpc = "capture" /\ rpc' = "voted"
\* the labels the voter counts: the whole deque, or the last k of gesture_buf
Window(w, v) ==
    IF v = "erererere" /\ Len(w) > SMOOTH_K
    THEN SubSeq(w, Len(w) - SMOOTH_K + 1, Len(w)) ELSE w
WindowSize(v) == IF v = "erererere" THEN SMOOTH_K ELSE VOTE_FRAMES(v)
\* window w2 is window w1 after one more label x, the oldest evicted when
\* w1 already holds k labels
Advanced(w1, w2, x, k) ==
    LET d == IF Len(w1) < k THEN 0 ELSE 1
    IN  /\ Len(w2) = Len(w1) + 1 - d
        /\ w2[Len(w2)] = x
        /\ \A i \in 1 .. (Len(w2) - 1) : w2[i] = w1[i + d]
\* the frame holds one hand at most per side
OneHandPerSide(f) == \A i, j \in 1 .. Len(f) : i # j => f[i][1] # f[j][1]
\* the label of the hand of that side, neutral when that side is absent
SideLabel(f, side, v) ==
    IF \E i \in 1 .. Len(f) : f[i][1] = side
    THEN (CHOOSE h \in {f[i] : i \in 1 .. Len(f)} : h[1] = side)[2]
    ELSE InitialGesture(v)

C16_VoterWindowAndMajority ==
    [][Recognizes =>
         LET W == Window(vote', variant)
         IN  /\ Advanced(Window(vote, variant), W, final', WindowSize(variant))
             /\ Len(W) <= WindowSize(variant)
             /\ voted' \in Modes(W)
             /\ \A x \in FrameLabels(variant) :
                  2 * Count(W, x) > Len(W) => voted' = x
             /\ W = <<"Open", "Open", "Fist">> => voted' = "Open"
             /\ W = <<"Open", "Fist", "Fist">> => voted' = "Fist"]_vars

C16_Witness ==
    /\ variant = "mediapipe"
    /\ rpc = "voted"
    /\ vote = <<"Open", "Fist", "Fist">>
    /\ voted = "Fist"

\* C17 (tie-break determinism): two runs of the recognizer fed the same
\* frame-level labels produce the same voted labels.
C17_SameVotesInTwoRuns == voted = votedB

\* C18 (frame combiner): a frame holding a Left hand and a Right hand that
\* both classify as Open has the frame-level label DualOpen.
C18_DualOpen ==
    (/\ rpc = "voted"
     /\ \E i, j \in 1 .. Len(hands) :
          hands[i] = <<"Left", "Open">> /\ hands[j] = <<"Right", "Open">>)
    => final = "DualOpen"

C18_Witness ==
    /\ rpc = "voted"
    /\ hands = << <<"Left", "Open">>, <<"Right", "Open">> >>
    /\ final = "DualOpen"
    /\ variant = "mediapipe2"

\* C19 (right-hand priority): when the frame is not a Left Open with a Right
\* Open, its label is the label of the Right hand if that is not neutral,
\* else the label of the Left hand (neutral when there is none), whatever the
\* order in which the hands are reported.
C19_RightHandPriority ==
    (/\ rpc = "voted"
     /\ OneHandPerSide(hands)
     /\ ~(/\ SideLabel(hands, "Left", variant) = "Open"
          /\ SideLabel(hands, "Right", variant) = "Open"))
    => final = IF SideLabel(hands, "Right", variant) # InitialGesture(variant)
               THEN SideLabel(hands, "Right", variant)
               ELSE SideLabel(hands, "Left", variant)

\* C20 (no hand detected): processing a frame without hands pushes the
\* neutral label into the vote window, which advances by one entry, and
\* recognize returns normally, so that the loop goes on to the next frame.
C20_NoHandFrameIsNeutral ==
    [][(rpc = "capture" /\ rpc' \notin {rpc, "failed"} /\ hands' = <<>>) =>
         /\ final' = InitialGesture(variant)
         /\ Advanced(Window(vote, variant), Window(vote', variant),
                     InitialGesture(variant), WindowSize(variant))
         /\ rpc' = "voted"]_vars

C20_Witness ==
    /\ variant = "mediapipe2"
    /\ rpc = "voted"
    /\ hands = <<>>
    /\ vote = <<"Open", "None">>
    /\ final = "None"

\* C21 (frame that fails to decode): a capture read that reports failure is
\* handled like a frame without hands, that is, it pushes the neutral label
\* into the vote window, which advances by one entry; and the loop goes on
\* (no error is propagated).
C21_FailedReadCountsAsNeutral ==
    [][(rpc = "capture" /\ rpc' = "failed") =>
         Advanced(Window(vote, variant), Window(vote', variant),
                  InitialGesture(variant), WindowSize(variant))]_vars

\* ================================================================ life cycle
\* SpecLife: the thread running camera_thread and the main thread of
\* gestix_runner2.py (t.start(), run_intro, GameEngine.run, t.join()) around
\* the SharedState of gestix_mediapipe2.py; and camera_thread of erererere.py,
\* which its __main__ runs in the main thread, with no consumer.  Every
\* SharedState method is two steps: entering `with self._lock:` and the block.
\* No clock is followed here: a comparison of clock readings is an input and
\* the timestamps stay as they are.  MediaPipe is taken to be installed.

recRest == <<hands, final, vote, setOrder, setOrderB, votedB, rpc, scen,
             scenGets>>
lifeRest == <<variant, cap_opened, chanRest, recRest, extVars>>

LifeVariants == {"mediapipe2", "erererere"}
\* the voted labels handed over: neutral and a consume-on-read one
LifeVoted(v) == {InitialGesture(v), "Open"}

\* leaving a `with self._lock:` block
ReleaseNever(l) == l
Release(l) == "free"

\* `while shared.is_running():`
LoopTest(r) == r

\* SharedState.set_running(val): self._running = val
SetRunningFlip(cur, val) == ~cur
set_running(cur, val) == val

\* positions at which a thread waits to enter `with self._lock:`
CamAcquire == {"ref_acq", "fail_acq", "top_acq", "set_acq", "view_acq",
               "quit_acq"}
MainAcquire == {"i_top_acq", "i_get_acq", "i_quit_acq", "e_top_acq",
                "e_quit_acq", "e_get_acq", "e_cam_acq", "e_ref_acq",
                "e_esc_acq"}
\* the position inside the block entered from position a
Body(a) ==
    CASE a = "ref_acq" -> "ref_body"     [] a = "fail_acq" -> "fail_body"
      [] a = "top_acq" -> "top_body"     [] a = "set_acq" -> "set_body"
      [] a = "view_acq" -> "view_body"   [] a = "quit_acq" -> "quit_body"
      [] a = "i_top_acq" -> "i_top_body" [] a = "i_get_acq" -> "i_get_body"
      [] a = "i_quit_acq" -> "i_quit_body"
      [] a = "e_top_acq" -> "e_top_body" [] a = "e_quit_acq" -> "e_quit_body"
      [] a = "e_get_acq" -> "e_get_body" [] a = "e_cam_acq" -> "e_cam_body"
      [] a = "e_ref_acq" -> "e_ref_body" [] a = "e_esc_acq" -> "e_esc_body"

\* who called set_running(False) first
Stopper(who) == IF stoppedBy = "-" THEN who ELSE stoppedBy

InitLife ==
    /\ ChanInit(LifeVariants)
    /\ RecAtRest
    /\ ExtAtRest
    /\ running = TRUE
    /\ cap_opened \in BOOLEAN
    /\ camera_view = FALSE
    /\ recognizer_ref = FALSE
    /\ tpc = IF variant = "erererere" THEN "open" ELSE "unstarted"
    /\ mpc = IF variant = "erererere" THEN "none" ELSE "spawn"
    /\ last_gesture = "NONE"
    /\ polled = "-"
    /\ mutated = FALSE
    /\ voteAccess = {}
    /\ stoppedBy = "-"
    /\ setCalls = FALSE

\* ------------------------------------------------------------ camera_thread
\* `with self._lock:` of the SharedState method the thread is calling
T_Enter ==
    /\ tpc \in CamAcquire
    /\ LockFree(lock)
    /\ lock' = "cam"
    /\ tpc' = Body(tpc)
    /\ UNCHANGED <<gesture, voted, running, camera_view, recognizer_ref, mpc,
                   last_gesture, polled, mutated, voteAccess, stoppedBy,
                   setCalls, lifeRest>>

\* shared.set_recognizer_ref(recog)
T_SetRecognizerRef ==
    /\ tpc = "ref_body"
    /\ recognizer_ref' = TRUE
    /\ lock' = Release(lock)
    /\ tpc' = "open"
    /\ UNCHANGED <<gesture, voted, running, camera_view, mpc, last_gesture,
                   polled, mutated, voteAccess, stoppedBy, setCalls, lifeRest>>

\* cap = cv2.VideoCapture(...); gestix_mediapipe2.py tests cap.isOpened(),
\* erererere.py goes on to its loop without a test
T_Open ==
    /\ tpc = "open"
    /\ tpc' = IF variant = "mediapipe2" /\ ~cap_opened
              THEN "fail_acq" ELSE "top_acq"
    /\ UNCHANGED <<lock, gesture, voted, running, camera_view, recognizer_ref,
                   mpc, last_gesture, polled, mutated, voteAccess, stoppedBy,
                   setCalls, lifeRest>>

\* if not cap.isOpened(): shared.set_running(False); return
T_FailSetRunning ==
    /\ tpc = "fail_body"
    /\ running' = set_running(running, FALSE)
    /\ stoppedBy' = Stopper("cam")
    /\ lock' = Release(lock)
    /\ tpc' = "returned"
    /\ UNCHANGED <<gesture, voted, camera_view, recognizer_ref, mpc,
                   last_gesture, polled, mutated, voteAccess, setCalls,
                   lifeRest>>

\* while shared.is_running():
T_IsRunning ==
    /\ tpc = "top_body"
    /\ lock' = Release(lock)
    /\ tpc' = IF LoopTest(running) THEN "read" ELSE "finally"
    /\ UNCHANGED <<gesture, voted, running, camera_view, recognizer_ref, mpc,
                   last_gesture, polled, mutated, voteAccess, stoppedBy,
                   setCalls, lifeRest>>

\* ok, frame = cap.read(); if not ok: time.sleep(0.02); continue
\* (a device that did not open never delivers a frame)
T_Read ==
    /\ tpc = "read"
    /\ \E ok \in BOOLEAN :
         tpc' = IF ok /\ cap_opened THEN "recog" ELSE "top_acq"
    /\ UNCHANGED <<lock, gesture, voted, running, camera_view, recognizer_ref,
                   mpc, last_gesture, polled, mutated, voteAccess, stoppedBy,
                   setCalls, lifeRest>>

\* recog.recognize(rgb): self.vote.append(final_gesture) and the vote
\* (erererere: gesture_buf.append(cur), _smooth_majority)
T_Recognize ==
    /\ tpc = "recog"
    /\ voted' \in LifeVoted(variant)
    /\ voteAccess' = voteAccess \cup {"cam"}
    /\ mutated' = (mutated \/ mpc = "e_acc_iter")
    /\ tpc' = IF variant = "mediapipe2" THEN "set_acq" ELSE "gate"
    /\ UNCHANGED <<lock, gesture, running, camera_view, recognizer_ref, mpc,
                   last_gesture, polled, stoppedBy, setCalls, lifeRest>>

\* an exception of OpenCV or MediaPipe inside the loop body:
\* gestix_mediapipe2.py prints it (except Exception) and goes to finally,
\* erererere.py has no except clause
T_Raise ==
    /\ tpc = "recog"
    /\ tpc' = IF variant = "mediapipe2" THEN "finally" ELSE "finally_exc"
    /\ UNCHANGED <<lock, gesture, voted, running, camera_view, recognizer_ref,
                   mpc, last_gesture, polled, mutated, voteAccess, stoppedBy,
                   setCalls, lifeRest>>

\* erererere: if smoothed != last_gesture or (time.time() - last_update) > 0.25
T_Gate ==
    /\ tpc = "gate"
    /\ \E late \in BOOLEAN :
         tpc' = IF voted # last_gesture \/ late THEN "set_acq" ELSE "key"
    /\ UNCHANGED <<lock, gesture, voted, running, camera_view, recognizer_ref,
                   mpc, last_gesture, polled, mutated, voteAccess, stoppedBy,
                   setCalls, lifeRest>>

\* shared.set_gesture(voted)   (erererere: and last_gesture = smoothed)
T_SetGesture ==
    /\ tpc = "set_body"
    /\ setCalls' = TRUE
    /\ IF variant = "mediapipe2"
       THEN /\ \E elapsed \in BOOLEAN :
                 gesture' = IF SetCondElapsed(voted, gesture, elapsed)
                            THEN voted ELSE gesture
            /\ tpc' = "view_acq"
            /\ UNCHANGED last_gesture
       ELSE /\ gesture' = voted
            /\ last_gesture' = voted
            /\ tpc' = "key"
    /\ lock' = Release(lock)
    /\ UNCHANGED <<voted, running, camera_view, recognizer_ref, mpc, polled,
                   mutated, voteAccess, stoppedBy, lifeRest>>

\* shared.set_camera_view(dbg, fps_disp, raw, lmk_data)
T_SetCameraView ==
    /\ tpc = "view_body"
    /\ camera_view' = TRUE
    /\ lock' = Release(lock)
    /\ tpc' = "top_acq"
    /\ UNCHANGED <<gesture, voted, running, recognizer_ref, mpc, last_gesture,
                   polled, mutated, voteAccess, stoppedBy, setCalls, lifeRest>>

\* erererere: key = cv2.waitKey(1); 'q' or ESC
T_Key ==
    /\ tpc = "key"
    /\ \E q \in BOOLEAN : tpc' = IF q THEN "quit_acq" ELSE "top_acq"
    /\ UNCHANGED <<lock, gesture, voted, running, camera_view, recognizer_ref,
                   mpc, last_gesture, polled, mutated, voteAccess, stoppedBy,
                   setCalls, lifeRest>>

\* erererere: shared.set_running(False) on 'q' or ESC
T_QuitSetRunning ==
    /\ tpc = "quit_body"
    /\ running' = set_running(running, FALSE)
    /\ stoppedBy' = Stopper("cam")
    /\ lock' = Release(lock)
    /\ tpc' = "top_acq"
    /\ UNCHANGED <<gesture, voted, camera_view, recognizer_ref, mpc,
                   last_gesture, polled, mutated, voteAccess, setCalls,
                   lifeRest>>

\* finally: cap.release(); recog.close()   (erererere: the exception, if
\* any, then leaves camera_thread)
T_Finally ==
    /\ tpc \in {"finally", "finally_exc"}
    /\ tpc' = IF tpc = "finally" THEN "returned" ELSE "raised"
    /\ UNCHANGED <<lock, gesture, voted, running, camera_view, recognizer_ref,
                   mpc, last_gesture, polled, mutated, voteAccess, stoppedBy,
                   setCalls, lifeRest>>

\* the steps camera_thread takes inside a `with self._lock:` block
CamLocked ==
    \/ T_SetRecognizerRef \/ T_FailSetRunning \/ T_IsRunning \/ T_SetGesture
    \/ T_SetCameraView \/ T_QuitSetRunning

\* -------------------------------------------- main thread, gestix_runner2.py
\* t = Thread(target=camera_thread, ..., daemon=True); t.start(); run_intro
M_Spawn ==
    /\ mpc = "spawn"
    /\ tpc' = "ref_acq"
    /\ mpc' = "i_top_acq"
    /\ UNCHANGED <<lock, gesture, voted, running, camera_view, recognizer_ref,
                   last_gesture, polled, mutated, voteAccess, stoppedBy,
                   setCalls, lifeRest>>

\* `with self._lock:` of the SharedState method the main thread is calling
M_Enter ==
    /\ mpc \in MainAcquire
    /\ LockFree(lock)
    /\ lock' = "main"
    /\ mpc' = Body(mpc)
    /\ UNCHANGED <<gesture, voted, running, camera_view, recognizer_ref, tpc,
                   last_gesture, polled, mutated, voteAccess, stoppedBy,
                   setCalls, lifeRest>>

\* IntroScreen.run: while self.shared.is_running():
M_IntroIsRunning ==
    /\ mpc = "i_top_body"
    /\ lock' = Release(lock)
    /\ mpc' = IF LoopTest(running) THEN "i_get_acq" ELSE "e_top_acq"
    /\ UNCHANGED <<gesture, voted, running, camera_view, recognizer_ref, tpc,
                   last_gesture, polled, mutated, voteAccess, stoppedBy,
                   setCalls, lifeRest>>

\* SharedState.get_gesture, called by IntroScreen._handle_input
M_IntroGetGesture ==
    /\ mpc = "i_get_body"
    /\ polled' = gesture
    /\ gesture' = GetReset(gesture, variant)
    /\ lock' = Release(lock)
    /\ mpc' = "i_decide"
    /\ UNCHANGED <<voted, running, camera_view, recognizer_ref, tpc,
                   last_gesture, mutated, voteAccess, stoppedBy, setCalls,
                   lifeRest>>

\* IntroScreen.run: should_quit, or the intro ends (skip, last page), or the
\* page is drawn and the loop goes on
M_IntroDecide ==
    /\ mpc = "i_decide"
    /\ \E ev \in {"stay", "quit", "leave"} :
         mpc' = CASE ev = "quit" -> "i_quit_acq"
                  [] ev = "leave" -> "e_top_acq"
                  [] OTHER -> "i_top_acq"
    /\ UNCHANGED <<lock, gesture, voted, running, camera_view, recognizer_ref,
                   tpc, last_gesture, polled, mutated, voteAccess, stoppedBy,
                   setCalls, lifeRest>>

\* IntroScreen.run: self.shared.set_running(False); break
M_IntroQuit ==
    /\ mpc = "i_quit_body"
    /\ running' = set_running(running, FALSE)
    /\ stoppedBy' = Stopper("main")
    /\ lock' = Release(lock)
    /\ mpc' = "e_top_acq"
    /\ UNCHANGED <<gesture, voted, camera_view, recognizer_ref, tpc,
                   last_gesture, polled, mutated, voteAccess, setCalls,
                   lifeRest>>

\* GameEngine.run: while self.shared.is_running(): ... then pygame.quit()
M_IsRunning ==
    /\ mpc = "e_top_body"
    /\ lock' = Release(lock)
    /\ mpc' = IF LoopTest(running) THEN "e_events" ELSE "join"
    /\ UNCHANGED <<gesture, voted, running, camera_view, recognizer_ref, tpc,
                   last_gesture, polled, mutated, voteAccess, stoppedBy,
                   setCalls, lifeRest>>

\* GameEngine.run: for e in pygame.event.get(): if e.type == pygame.QUIT
M_Events ==
    /\ mpc = "e_events"
    /\ \E quit \in BOOLEAN : mpc' = IF quit THEN "e_quit_acq" ELSE "e_get_acq"
    /\ UNCHANGED <<lock, gesture, voted, running, camera_view, recognizer_ref,
                   tpc, last_gesture, polled, mutated, voteAccess, stoppedBy,
                   setCalls, lifeRest>>

\* GameEngine.run: self.shared.set_running(False) on QUIT; the iteration
\* goes on
M_QuitSetRunning ==
    /\ mpc = "e_quit_body"
    /\ running' = set_running(running, FALSE)
    /\ stoppedBy' = Stopper("main")
    /\ lock' = Release(lock)
    /\ mpc' = "e_get_acq"
    /\ UNCHANGED <<gesture, voted, camera_view, recognizer_ref, tpc,
                   last_gesture, polled, mutated, voteAccess, setCalls,
                   lifeRest>>

\* SharedState.get_gesture, called by GameEngine.poll_gesture_action
M_GetGesture ==
    /\ mpc = "e_get_body"
    /\ polled' = gesture
    /\ gesture' = GetReset(gesture, variant)
    /\ lock' = Release(lock)
    /\ mpc' = "e_cam_acq"
    /\ UNCHANGED <<voted, running, camera_view, recognizer_ref, tpc,
                   last_gesture, mutated, voteAccess, stoppedBy, setCalls,
                   lifeRest>>

\* cam = self.shared.get_camera_view(); if cam is not None:
M_GetCameraView ==
    /\ mpc = "e_cam_body"
    /\ lock' = Release(lock)
    /\ mpc' = IF camera_view THEN "e_ref_acq" ELSE "e_top_acq"
    /\ UNCHANGED <<gesture, voted, running, camera_view, recognizer_ref, tpc,
                   last_gesture, polled, mutated, voteAccess, stoppedBy,
                   setCalls, lifeRest>>

\* recog = self.shared.get_recognizer_ref(); if recog is not None:
M_GetRecognizerRef ==
    /\ mpc = "e_ref_body"
    /\ lock' = Release(lock)
    /\ mpc' = IF recognizer_ref THEN "e_acc" ELSE "e_key"
    /\ UNCHANGED <<gesture, voted, running, camera_view, recognizer_ref, tpc,
                   last_gesture, polled, mutated, voteAccess, stoppedBy,
                   setCalls, lifeRest>>

\* recog.get_acc(): self.vote[-1], len(self.vote) and the iterator of
\* sum(1 for g in self.vote if g == current), no lock taken
M_GetAccBegin ==
    /\ mpc = "e_acc"
    /\ voteAccess' = voteAccess \cup {"main"}
    /\ mutated' = FALSE
    /\ mpc' = "e_acc_iter"
    /\ UNCHANGED <<lock, gesture, voted, running, camera_view, recognizer_ref,
                   tpc, last_gesture, polled, stoppedBy, setCalls, lifeRest>>

\* recog.get_acc(): the iteration over self.vote; an append since the iterator
\* was made raises RuntimeError (deque mutated during iteration), which
\* leaves GameEngine.run and __main__: the process ends, and the daemon
\* thread with it
M_GetAccEnd ==
    /\ mpc = "e_acc_iter"
    /\ IF mutated
       THEN /\ mpc' = "crashed"
            /\ tpc' = IF tpc = "returned" THEN tpc ELSE "killed"
       ELSE /\ mpc' = "e_key"
            /\ UNCHANGED tpc
    /\ UNCHANGED <<lock, gesture, voted, running, camera_view, recognizer_ref,
                   last_gesture, polled, mutated, voteAccess, stoppedBy,
                   setCalls, lifeRest>>

\* GameEngine.run: if cv2.waitKey(1) & 0xFF == 27
M_Key ==
    /\ mpc = "e_key"
    /\ \E esc \in BOOLEAN : mpc' = IF esc THEN "e_esc_acq" ELSE "e_top_acq"
    /\ UNCHANGED <<lock, gesture, voted, running, camera_view, recognizer_ref,
                   tpc, last_gesture, polled, mutated, voteAccess, stoppedBy,
                   setCalls, lifeRest>>

\* GameEngine.run: self.shared.set_running(False) on ESC
M_EscSetRunning ==
    /\ mpc = "e_esc_body"
    /\ running' = set_running(running, FALSE)
    /\ stoppedBy' = Stopper("main")
    /\ lock' = Release(lock)
    /\ mpc' = "e_top_acq"
    /\ UNCHANGED <<gesture, voted, camera_view, recognizer_ref, tpc,
                   last_gesture, polled, mutated, voteAccess, setCalls,
                   lifeRest>>

\* __main__: t.join()
M_Join ==
    /\ mpc = "join"
    /\ tpc = "returned"
    /\ mpc' = "done"
    /\ UNCHANGED <<lock, gesture, voted, running, camera_view, recognizer_ref,
                   tpc, last_gesture, polled, mutated, voteAccess, stoppedBy,
                   setCalls, lifeRest>>

\* the two get_gesture blocks of the main thread
MainGets == M_IntroGetGesture \/ M_GetGesture

NextLife ==
    \/ T_Enter \/ T_SetRecognizerRef \/ T_Open \/ T_FailSetRunning
    \/ T_IsRunning \/ T_Read \/ T_Recognize \/ T_Raise \/ T_Gate
    \/ T_SetGesture \/ T_SetCameraView \/ T_Key \/ T_QuitSetRunning
    \/ T_Finally
    \/ M_Spawn \/ M_Enter \/ M_IntroIsRunning \/ M_IntroGetGesture
    \/ M_IntroDecide \/ M_IntroQuit \/ M_IsRunning \/ M_Events
    \/ M_QuitSetRunning \/ M_GetGesture \/ M_GetCameraView
    \/ M_GetRecognizerRef \/ M_GetAccBegin \/ M_GetAccEnd \/ M_Key
    \/ M_EscSetRunning \/ M_Join

SpecLife == InitLife /\ [][NextLife]_vars

\* Scheduling: a thread inside a `with self._lock:` block goes on to the end
\* of the block (its statements do not block); a thread waiting for the lock
\* gets it if the lock is free again and again (the holder's blocks are
\* short and the camera thread spends its time in capture and inference,
\* outside the lock).  Nothing is assumed about the camera thread outside
\* its blocks: it may stop for good.
SpecLifeFair ==
    /\ SpecLife
    /\ WF_vars(CamLocked)
    /\ SF_vars(M_Enter)
    /\ WF_vars(MainGets)

\* ------------------------------------------------- life cycle: properties
CamBodies == {Body(a) : a \in CamAcquire}
MainBodies == {Body(a) : a \in MainAcquire}
\* the main thread has called get_gesture and waits for the lock, or is in
\* the block
InGetGesture == mpc \in {"i_get_acq", "i_get_body", "e_get_acq", "e_get_body"}
\* get_gesture has returned to its caller
GetGestureReturned == mpc \in {"i_decide", "e_cam_acq"}
\* camera_thread is in its capture loop
InCameraLoop ==
    tpc \in {"top_acq", "top_body", "read", "recog", "gate", "set_acq",
             "set_body", "view_acq", "view_body", "key", "quit_acq",
             "quit_body"}

\* C11 (get_gesture never waits for the producer): while the process lives
\* the lock is held only by a thread inside one SharedState block, never by
\* the camera thread during capture, inference or its other steps outside a
\* block, so the two threads never wait for each other; and a get_gesture
\* call of the main thread always returns, even if the camera thread stops
\* for good outside its blocks (SpecLifeFair).
C11_GetGestureReturns ==
    /\ [](mpc # "crashed" =>
            /\ lock = "cam" <=> tpc \in CamBodies
            /\ lock = "main" <=> mpc \in MainBodies)
    /\ InGetGesture ~> GetGestureReturned

\* the main thread is inside get_gesture, holding the lock, while the camera
\* thread is in the middle of inference
C11_Witness ==
    /\ variant = "mediapipe2"
    /\ lock = "main"
    /\ mpc = "e_get_body"
    /\ tpc = "recog"
    /\ gesture = "Open"

\* C12 (cancellation): once set_running(False) has been called, each loop
\* ends at its loop test: the main thread is not thrown out of
\* GameEngine.run by an exception and the camera thread is not ended with
\* the process before it returns, so that t.join() is reached.
C12_LoopsEndAtTheirLoopTest ==
    running = FALSE => (mpc # "crashed" /\ tpc # "killed")

\* C13 (producer startup failure): with a capture device that does not open,
\* camera_thread never enters its capture loop and never calls set_gesture,
\* no exception leaves it, once it has looked at the device it has set
\* running to false and returned, and every get_gesture of the consumer has
\* returned the neutral label.
C13_StartupFailure ==
    ~cap_opened =>
        /\ ~InCameraLoop
        /\ ~setCalls
        /\ tpc \notin {"finally_exc", "raised"}
        /\ tpc \in {"unstarted", "ref_acq", "ref_body", "open", "fail_acq",
                    "fail_body"}
             \/ (tpc = "returned" /\ running = FALSE /\ stoppedBy = "cam")
        /\ polled \in {"-", InitialGesture(variant)}

\* C32: whenever camera_thread of gestix_mediapipe2.py has returned, for
\* whatever reason (the device did not open, the loop test failed, an
\* exception was caught inside the loop), the running flag is false.
C32_ReturnedMeansStopped ==
    (variant = "mediapipe2" /\ tpc = "returned") => running = FALSE

\* C35: the running flag is true when SharedState is constructed and, once
\* a thread has set it to false, it is false in every later state: no step
\* of camera_thread, of the intro or of the game loop sets it back to true.
C35_RunningIsMonotonic ==
    /\ running = TRUE
    /\ [][running = FALSE => running' = FALSE]_vars

\* the main thread stopped the program from the game loop (QUIT), both loops
\* have ended at their tests and the flag is still false
C35_Witness ==
    /\ running = FALSE
    /\ stoppedBy = "main"
    /\ tpc = "returned"
    /\ mpc = "join"
    /\ variant = "mediapipe2"

\* C14 (the mailbox is the only shared mutable state): only the camera
\* thread touches the vote window, and no append to it happens while another
\* thread iterates over it.
C14_VoteWindowOwnedByProducer ==
    /\ voteAccess \subseteq {"cam"}
    /\ ~mutated

\* ======================================================= per-hand classifier
\* SpecCls: _single_hand_gesture of gestix_mediapipe2.py (the older copy has
\* the same body) and _classify_single_hand of erererere.py, applied to one
\* hand.  Of the 21 landmarks the classifiers look at the differences below
\* only; lengths are in hundredths of the image size.

ClsVariants == {"mediapipe2", "erererere"}

\* _is_ok: d48 < 0.35
OK_RATIO == 35
\* _pinch_ok: d < 0.05
PINCH_DIST == 5
\* _is_finger_up: tip.y < mcp.y - 0.02
FINGER_MARGIN == 2

\* thumb: x[4] - x[3] and x[3] - x[2]
ThumbDxs == {-1, 0, 1} \X {-1, 1}
\* a finger: tip above the joint by 0.03, above it by 0.01, level with it
FingerDys == {-3, -1, 0}
PinchDs == {0, 3, 4, 5, 35}
BaseDs == {0, 10, 100}

\* _get_finger_status: [thumb, index, middle, ring, pinky], tip_ids[0] - 1 = 3
\* for the thumb and tip_ids[i] - 2, the PIP, for the fingers
get_finger_status(h, tdx, fdy) ==
    << IF h = "Right" THEN tdx[1] < 0 ELSE tdx[1] > 0,
       fdy[1] < 0, fdy[2] < 0, fdy[3] < 0, fdy[4] < 0 >>

\* _is_thumb_up and _is_finger_up(tip, mcp) of erererere
finger_up(h, tdx, fdy) ==
    << IF h = "Left" THEN tdx[1] < 0 /\ tdx[2] < 0
                     ELSE tdx[1] > 0 /\ tdx[2] > 0,
       fdy[1] < 0 - FINGER_MARGIN, fdy[2] < 0 - FINGER_MARGIN,
       fdy[3] < 0 - FINGER_MARGIN, fdy[4] < 0 - FINGER_MARGIN >>

Fingers(v, h, tdx, fdy) ==
    IF v = "erererere" THEN finger_up(h, tdx, fdy)
    ELSE get_finger_status(h, tdx, fdy)

\* how many of middle, ring, pinky are extended: sum(fingers[2:])
SumRest(f) ==
    (IF f[3] THEN 1 ELSE 0) + (IF f[4] THEN 1 ELSE 0) + (IF f[5] THEN 1 ELSE 0)

\* d48 = dist(lms[4], lms[8]) / (dist(lms[0], lms[9]) + 1e-6) < 0.35, that is
\* d / 100 < 0.35 * (b / 100 + 10^-6), both sides times 10^8
RatioBelow(d, b) == d * 1000000 < OK_RATIO * (b * 10000 + 1)

\* the pinch test of each module
PinchNear(v, d, b) ==
    IF v = "erererere" THEN d < PINCH_DIST ELSE RatioBelow(d, b)

\* _is_ok, and the OK test of _classify_single_hand
is_ok_without_rest(v, f, d, b) ==
    IF v = "erererere" THEN PinchNear(v, d, b) /\ (f[3] \/ f[4] \/ f[5])
    ELSE PinchNear(v, d, b) /\ f[2]
is_ok(v, f, d, b) ==
    IF v = "erererere" THEN PinchNear(v, d, b) /\ (f[3] \/ f[4] \/ f[5])
    ELSE PinchNear(v, d, b) /\ f[2] /\ SumRest(f) <= 1

is_victory(f) == f[2] /\ f[3] /\ ~f[4] /\ ~f[5]
\* _is_gun; erererere asks for the thumb as well
is_gun(v, f) ==
    IF v = "erererere" THEN f[2] /\ f[1] /\ ~f[3] /\ ~f[4] /\ ~f[5]
    ELSE f[2] /\ SumRest(f) = 0
\* _is_point1; erererere asks for the thumb to be flexed
is_point1(v, f) ==
    IF v = "erererere" THEN f[2] /\ ~f[3] /\ ~f[4] /\ ~f[5] /\ ~f[1]
    ELSE f[2] /\ ~f[3] /\ ~f[4] /\ ~f[5]
is_thumb_up(f) == f[1] /\ ~f[2] /\ ~f[3] /\ ~f[4] /\ ~f[5]
is_fist(f) == ~f[1] /\ ~f[2] /\ ~f[3] /\ ~f[4] /\ ~f[5]
is_open(f) == f[1] /\ f[2] /\ f[3] /\ f[4] /\ f[5]

\* HandGestureRecognizer._single_hand_gesture
single_hand_gesture(f, d, b) ==
    IF is_ok("mediapipe2", f, d, b) THEN "OK"
    ELSE IF is_victory(f) THEN "Victory"
    ELSE IF is_gun("mediapipe2", f) THEN "Gun"
    ELSE IF is_point1("mediapipe2", f) THEN "Point1"
    ELSE IF is_thumb_up(f) THEN "ThumbUp"
    ELSE IF is_fist(f) THEN "Fist"
    ELSE IF is_open(f) THEN "Open"
    ELSE "None"

\* _classify_single_hand of erererere
classify_single_hand(f, d, b) ==
    IF is_ok("erererere", f, d, b) THEN "OK"
    ELSE IF is_victory(f) THEN "Victory"
    ELSE IF is_point1("erererere", f) THEN "Point1"
    ELSE IF is_gun("erererere", f) THEN "Gun"
    ELSE IF is_thumb_up(f) THEN "ThumbUp"
    ELSE IF is_open(f) THEN "Open"
    ELSE IF is_fist(f) THEN "Fist"
    ELSE "NONE"

\* the classifier of module v on the flags f and the pinch lengths d, b
ClassifyVictoryFirst(v, f, d, b) ==
    IF is_victory(f) THEN "Victory"
    ELSE IF v = "erererere" THEN classify_single_hand(f, d, b)
    ELSE single_hand_gesture(f, d, b)
ClassifyPointFirst(v, f, d, b) ==
    IF is_point1(v, f) THEN "Point1"
    ELSE IF v = "erererere" THEN classify_single_hand(f, d, b)
    ELSE single_hand_gesture(f, d, b)
Classify(v, f, d, b) ==
    IF v = "erererere" THEN classify_single_hand(f, d, b)
    ELSE single_hand_gesture(f, d, b)

InitCls ==
    /\ ChanInit(ClsVariants)
    /\ RecAtRest
    /\ LifeAtRest
    /\ GameAtRest
    /\ LoopAtRest
    /\ GateAtRest
    /\ handed \in Handedness
    /\ thumbDx \in ThumbDxs
    /\ fingerDy \in FingerDys \X FingerDys \X FingerDys \X FingerDys
    /\ pinchD \in PinchDs
    /\ baseD \in BaseDs
    /\ label = "-"
    /\ kpc = "hand"

\* g = self._single_hand_gesture(hand_lms.landmark, handed)
\* (erererere: g = _classify_single_hand(pts, label))
K_Classify ==
    /\ kpc = "hand"
    /\ label' = Classify(variant, Fingers(variant, handed, thumbDx, fingerDy),
                         pinchD, baseD)
    /\ kpc' = "classified"
    /\ UNCHANGED <<handed, thumbDx, fingerDy, pinchD, baseD>>
    /\ UNCHANGED <<progVars, histVars, obsVars, recVars, lifeVars, gameVars,
                   loopVars, gateVars>>

NextCls == K_Classify
SpecCls == InitCls /\ [][NextCls]_vars

\* ------------------------------------------------- classifier: properties
\* the flags of the hand just classified
Flags == Fingers(variant, handed, thumbDx, fingerDy)
\* the predicate the module has for a label
Matches(x, v, f, d, b) ==
    CASE x = "OK" -> is_ok(v, f, d, b)
      [] x = "Victory" -> is_victory(f)
      [] x = "Gun" -> is_gun(v, f)
      [] x = "Point1" -> is_point1(v, f)
      [] x = "ThumbUp" -> is_thumb_up(f)
      [] x = "Fist" -> is_fist(f)
      [] x = "Open" -> is_open(f)
\* the order of the cascade as stated
CascadeOrder == <<"OK", "Victory", "Gun", "Point1", "ThumbUp", "Fist", "Open">>
FirstMatch(v, f, d, b) ==
    LET M == {i \in 1 .. 7 : Matches(CascadeOrder[i], v, f, d, b)}
    IN  IF M = {} THEN InitialGesture(v) ELSE CascadeOrder[MinOf(M)]

\* C22 (cascade): for every combination of the finger flags and of the pinch
\* predicate the classifier returns one label of its enumeration, the label
\* of the first predicate that matches in the order OK, Victory, Gun, Point,
\* ThumbUp, Fist, Open, and the neutral label when none matches.
C22_FirstMatchingPredicateWins ==
    kpc = "classified" =>
        /\ label \in GestureLabels(variant)
        /\ label = FirstMatch(variant, Flags, pinchD, baseD)

\* a pinched hand with index and middle extended: OK comes before Victory
C22_Witness ==
    /\ kpc = "classified"
    /\ variant = "erererere"
    /\ is_victory(Flags)
    /\ PinchNear(variant, pinchD, baseD)
    /\ label = "OK"

\* C23 (Gun fixture): gestix_mediapipe2 classifies a hand with index and
\* thumb extended, middle, ring and pinky flexed and the pinch predicate
\* false as Gun.
C23_IndexAndThumbIsGun ==
    (/\ kpc = "classified"
     /\ variant = "mediapipe2"
     /\ Flags = <<TRUE, TRUE, FALSE, FALSE, FALSE>>
     /\ ~PinchNear(variant, pinchD, baseD))
    => label = "Gun"

C23_Witness ==
    /\ kpc = "classified"
    /\ variant = "mediapipe2"
    /\ handed = "Left"
    /\ Flags = <<TRUE, TRUE, FALSE, FALSE, FALSE>>
    /\ pinchD = 5
    /\ baseD = 10
    /\ label = "Gun"

\* C24 (Open and Fist fixtures): for both handedness values
\* gestix_mediapipe2 classifies a hand with all five digits extended as Open
\* and a hand with no digit extended as Fist, whatever the pinch distance.
C24_OpenAndFist ==
    (kpc = "classified" /\ variant = "mediapipe2") =>
        /\ Flags = <<TRUE, TRUE, TRUE, TRUE, TRUE>> => label = "Open"
        /\ Flags = <<FALSE, FALSE, FALSE, FALSE, FALSE>> => label = "Fist"

\* a Left hand, all digits extended, thumb tip on the index tip
C24_Witness ==
    /\ kpc = "classified"
    /\ variant = "mediapipe2"
    /\ handed = "Left"
    /\ thumbDx[1] > 0
    /\ Flags = <<TRUE, TRUE, TRUE, TRUE, TRUE>>
    /\ pinchD = 0
    /\ label = "Open"

\* C25 (pinch / OK predicate): the classifier returns OK exactly when the
\* thumb-tip to index-tip distance divided by the wrist to middle-knuckle
\* distance is below the ratio threshold and at most one of middle, ring,
\* pinky is extended, whatever the index finger and the thumb do.
C25_OkIffPinchRatioAndRest ==
    (kpc = "classified" /\ baseD > 0) =>
        (label = "OK" <=> (RatioBelow(pinchD, baseD) /\ SumRest(Flags) <= 1))

\* every label _single_hand_gesture can return: all finger flags, all pinch
\* lengths
FlagSets == BOOLEAN \X BOOLEAN \X BOOLEAN \X BOOLEAN \X BOOLEAN
HandRange ==
    {single_hand_gesture(f, d, b) : f \in FlagSets, d \in PinchDs, b \in BaseDs}
\* every label recognize() can then give a frame of up to MAX_HANDS hands
FrameRange ==
    {Combine(h, "mediapipe2") :
        h \in UNION {[1 .. n -> Handedness \X HandRange] : n \in 0 .. MAX_HANDS}}

\* C34: the classifier of gestix_mediapipe2 never returns "Point1": every
\* finger pattern that satisfies _is_point1 satisfies _is_gun, which is
\* tested first; so no hand is labelled Point1, no frame is, and Point1 is
\* neither voted nor written to the mailbox nor read from it.
C34_Point1NeverReturned ==
    /\ variant = "mediapipe2" =>
         /\ is_point1(variant, Flags) => is_gun(variant, Flags)
         /\ kpc = "classified" => label # "Point1"
    /\ \A f \in FlagSets : is_point1("mediapipe2", f) => is_gun("mediapipe2", f)
    /\ "Point1" \notin HandRange
    /\ "Point1" \notin FrameRange

\* the index finger alone, thumb flexed and away from the index tip: the
\* pattern of _is_point1, labelled Gun
C34_Witness ==
    /\ kpc = "classified"
    /\ variant = "mediapipe2"
    /\ Flags = <<FALSE, TRUE, FALSE, FALSE, FALSE>>
    /\ is_point1(variant, Flags)
    /\ ~PinchNear(variant, pinchD, baseD)
    /\ label = "Gun"

\* ================================================================ game engine
\* SpecGame: GameEngine.run of gestix_runner2.py with the Config of
\* gestix_mediapipe2.py, one iteration in three steps: the poll of the
\* gesture, the state machine, and update().  The player holds a hand shape in
\* front of the camera until its label is the voted one and the engine reads
\* it.  The score is counted in units of BOSS_SCORE_STEP, Player.hp as
\* positive or not; sprites, timers and drawing are left out, their effect
\* on the fields below being an input of update().

MaxScore == 3       \* the score is followed up to MaxScore * BOSS_SCORE_STEP

\* _ensure_config_defaults: MAX_BOSS_PHASE=5 (Config has none of its own)
MAX_BOSS_PHASE == 5
\* Config.COIN_ENERGY_GAIN
COIN_ENERGY_GAIN == 10
\* _handle_collisions: min(100, ...); run: self.energy >= 100
ENERGY_FULL == 100
\* `from boss_room import BossRoom` succeeds: boss_room.py is in the repository
HAS_BOSS == TRUE

\* Config.GESTURE_MAPPING of gestix_mediapipe2.py, which is the one in force
\* (_ensure_config_defaults only fills in what Config lacks)
GESTURE_MAPPING ==
    ("Fist" :> "START_GAME") @@ ("Open" :> "JUMP") @@
    ("Point1" :> "PAUSE_TOGGLE") @@ ("Gun" :> "SHOOT") @@
    ("ThumbUp" :> "RESTART") @@ ("Victory" :> "JUMP") @@ ("OK" :> "NONE") @@
    ("DualOpen" :> "ULTI")
\* Config.GESTURE_MAPPING of gestix_runner.py
GESTURE_MAPPING_RUNNER ==
    ("Fist" :> "START_GAME") @@ ("Open" :> "JUMP") @@ ("Gun" :> "SHOOT") @@
    ("OK" :> "SPEED_UP") @@ ("Victory" :> "ULTI") @@ ("ThumbUp" :> "RESTART") @@
    ("Wave" :> "PAUSE_TOGGLE") @@ ("DualOpen" :> "ULTI")

\* Config.GESTURE_MAPPING.get(gesture, "NONE")
ResolveOrJump(m, x) == IF x \in DOMAIN m THEN m[x] ELSE "JUMP"
Resolve(m, x) == IF x \in DOMAIN m THEN m[x] ELSE "NONE"

\* the hand shapes held in front of the camera: the flags
\* [thumb, index, middle, ring, pinky] of one hand and whether thumb tip and
\* index tip touch; no hand; two open hands
ShapeFlags ==
    ("Fist" :> <<FALSE, FALSE, FALSE, FALSE, FALSE>>) @@
    ("Open" :> <<TRUE, TRUE, TRUE, TRUE, TRUE>>) @@
    ("IndexOnly" :> <<FALSE, TRUE, FALSE, FALSE, FALSE>>) @@
    ("IndexThumb" :> <<TRUE, TRUE, FALSE, FALSE, FALSE>>) @@
    ("ThumbOnly" :> <<TRUE, FALSE, FALSE, FALSE, FALSE>>) @@
    ("IndexMiddle" :> <<FALSE, TRUE, TRUE, FALSE, FALSE>>) @@
    ("Pinch" :> <<TRUE, TRUE, FALSE, FALSE, FALSE>>) @@
    ("MiddleOnly" :> <<FALSE, FALSE, TRUE, FALSE, FALSE>>)
Shapes == DOMAIN ShapeFlags \cup {"NoHand", "TwoOpen"}

\* the label recognize() gives a frame with that shape: classifier, then
\* frame combiner
ShapeLabel(sh) ==
    LET one(x) == Classify("mediapipe2", ShapeFlags[x],
                           IF x = "Pinch" THEN 0 ELSE 5, 10)
    IN  CASE sh = "NoHand" -> Combine(<<>>, "mediapipe2")
          [] sh = "TwoOpen" ->
               Combine(<< <<"Left", one("Open")>>, <<"Right", one("Open")>> >>,
                       "mediapipe2")
          [] OTHER -> Combine(<< <<"Right", one(sh)>> >>, "mediapipe2")

\* run: if (not self.shield_on) and self.energy >= 100
UltiAlways(s, en) == TRUE
UltiReady(s, en) == ~s /\ en >= ENERGY_FULL

\* _handle_collisions: self.energy = min(100, self.energy + COIN_ENERGY_GAIN),
\* once per coin collected
RECURSIVE GainEnergy(_, _)
GainEnergy(en, n) ==
    IF n = 0 THEN en
    ELSE GainEnergy(IF en + COIN_ENERGY_GAIN < ENERGY_FULL
                    THEN en + COIN_ENERGY_GAIN ELSE ENERGY_FULL, n - 1)

\* update: the room made for a boss phase, the field being left as it is for
\* the phases that have no room
RoomOf(phase, room) ==
    CASE phase = 0 -> "BossRoom"
      [] phase = 1 -> "BossRoom2"
      [] OTHER -> room

\* GameEngine.__init__: reset_game(), _paused_from = "PLAYING"
InitGame ==
    /\ ChanInit({"mediapipe2"})
    /\ RecAtRest
    /\ LifeAtRest
    /\ ClsAtRest
    /\ LoopAtRest
    /\ GateAtRest
    /\ game_state = "START"
    /\ paused_from = "PLAYING"
    /\ energy = 0
    /\ shield_on = FALSE
    /\ score = 0
    /\ boss_phase = 0
    /\ boss_room = "none"
    /\ portal_fx = FALSE
    /\ boss_triggered = FALSE
    /\ hp = TRUE
    /\ shown = "-"
    /\ action = "-"
    /\ gpc = "top"
    /\ resets = FALSE

gameRest == <<progVars, histVars, obsVars, recVars, lifeVars, handed, thumbDx,
              fingerDy, pinchD, baseD, kpc, loopVars, gateVars>>

\* run: action = self.poll_gesture_action()
G_Poll ==
    /\ gpc = "top"
    /\ \E sh \in Shapes :
         /\ shown' = sh
         /\ label' = ShapeLabel(sh)
         /\ action' = Resolve(GESTURE_MAPPING, ShapeLabel(sh))
    /\ resets' = FALSE
    /\ gpc' = "machine"
    /\ UNCHANGED <<game_state, paused_from, energy, shield_on, score,
                   boss_phase, boss_room, portal_fx, boss_triggered, hp,
                   gameRest>>

\* reset_game: the fields it assigns
ResetGame ==
    /\ score' = 0
    /\ energy' = 0
    /\ shield_on' = FALSE
    /\ game_state' = "START"
    /\ boss_room' = "none"
    /\ portal_fx' = FALSE
    /\ boss_triggered' = FALSE
    /\ boss_phase' = 0
    /\ hp' = TRUE
    /\ resets' = TRUE
    /\ UNCHANGED paused_from

\* run: the STATE MACHINE block
G_StateMachine ==
    /\ gpc = "machine"
    /\ gpc' = "update"
    /\ shown' = "-"
    /\ label' = "-"
    /\ action' = "-"
    /\ CASE game_state = "START" ->
              /\ game_state' = IF action = "START_GAME" THEN "PLAYING"
                               ELSE game_state
              /\ UNCHANGED <<paused_from, energy, shield_on, score, boss_phase,
                             boss_room, portal_fx, boss_triggered, hp, resets>>
         [] \/ game_state = "PLAYING"
            \/ (game_state = "BOSS_ROOM" /\ HAS_BOSS /\ boss_room # "none") ->
              /\ IF action = "PAUSE_TOGGLE"
                 THEN paused_from' = game_state /\ game_state' = "PAUSED"
                 ELSE UNCHANGED <<paused_from, game_state>>
              /\ IF action = "ULTI" /\ UltiReady(shield_on, energy)
                 THEN shield_on' = TRUE /\ energy' = 0
                 ELSE UNCHANGED <<shield_on, energy>>
              /\ UNCHANGED <<score, boss_phase, boss_room, portal_fx,
                             boss_triggered, hp, resets>>
         [] game_state = "PAUSED" ->
              /\ IF action = "PAUSE_TOGGLE"
                 THEN game_state' = paused_from /\ paused_from' = "PLAYING"
                 ELSE UNCHANGED <<paused_from, game_state>>
              /\ UNCHANGED <<energy, shield_on, score, boss_phase, boss_room,
                             portal_fx, boss_triggered, hp, resets>>
         [] game_state = "GAME_OVER" ->
              IF action \in {"START_GAME", "PAUSE_TOGGLE"}
              THEN ResetGame
              ELSE UNCHANGED <<game_state, paused_from, energy, shield_on,
                               score, boss_phase, boss_room, portal_fx,
                               boss_triggered, hp, resets>>
         [] OTHER ->
              UNCHANGED <<game_state, paused_from, energy, shield_on, score,
                          boss_phase, boss_room, portal_fx, boss_triggered, hp,
                          resets>>
    /\ UNCHANGED gameRest

\* update(dt) in PLAYING: scoring, _update_shield, _handle_collisions, the
\* portal and the entry into the boss room
UpdatePlaying ==
    \E gain \in 0 .. 1, expired \in BOOLEAN, coins \in 0 .. 2,
       killed \in BOOLEAN, enter \in BOOLEAN :
      LET score1 == IF score + gain <= MaxScore THEN score + gain ELSE score
          shield1 == shield_on /\ ~expired
          dead == killed /\ ~shield1
          portal1 == \/ portal_fx
                     \/ /\ HAS_BOSS /\ ~boss_triggered
                        /\ boss_phase < MAX_BOSS_PHASE
                        /\ score1 >= boss_phase + 1
          enters == portal1 /\ enter
      IN  /\ score' = score1
          /\ shield_on' = shield1
          /\ energy' = GainEnergy(energy, coins)
          /\ hp' = (hp /\ ~dead)
          /\ game_state' = IF enters THEN "BOSS_ROOM"
                           ELSE IF ~hp' THEN "GAME_OVER" ELSE game_state
          /\ boss_room' = IF enters THEN RoomOf(boss_phase, boss_room)
                          ELSE boss_room
          /\ portal_fx' = (portal1 /\ ~enters)
          /\ boss_triggered' = (boss_triggered \/ enters)
          /\ UNCHANGED <<boss_phase, paused_from>>

\* update(dt) in BOSS_ROOM with a room: boss_room.update, _update_shield,
\* the death of the player, the death of the boss
UpdateBossRoom ==
    \E expired \in BOOLEAN, hurt \in BOOLEAN, boss_dead \in BOOLEAN :
      LET shield1 == shield_on /\ ~expired
          hp1 == hp /\ ~(hurt /\ ~shield_on)
      IN  /\ shield_on' = shield1
          /\ IF ~hp1
             THEN /\ hp' = hp1
                  /\ game_state' = "GAME_OVER"
                  /\ UNCHANGED <<boss_room, portal_fx, boss_phase,
                                 boss_triggered>>
             ELSE IF boss_dead
             THEN /\ hp' = TRUE
                  /\ boss_room' = "none"
                  /\ game_state' = "PLAYING"
                  /\ portal_fx' = FALSE
                  /\ boss_phase' = boss_phase + 1
                  /\ boss_triggered' = FALSE
             ELSE /\ hp' = hp1
                  /\ UNCHANGED <<game_state, boss_room, portal_fx, boss_phase,
                                 boss_triggered>>
          /\ UNCHANGED <<score, energy, paused_from>>

\* run: if self.game_state != "PAUSED": self.update(dt)
Update ==
    CASE game_state = "PLAYING" -> UpdatePlaying
      [] game_state = "BOSS_ROOM" /\ HAS_BOSS /\ boss_room # "none" ->
           UpdateBossRoom
      [] OTHER ->
           UNCHANGED <<game_state, paused_from, energy, shield_on, score,
                       boss_phase, boss_room, portal_fx, boss_triggered, hp>>

\* run: the update, then draw and the camera window
G_Update ==
    /\ gpc = "update"
    /\ gpc' = "top"
    /\ resets' = FALSE
    /\ Update
    /\ UNCHANGED <<shown, label, action, gameRest>>

NextGame == G_Poll \/ G_StateMachine \/ G_Update
SpecGame == InitGame /\ [][NextGame]_vars

\* ------------------------------------------------- game engine: properties
\* labels of every recognizer of the repository, the neutral ones included
AnyLabel ==
    GestureLabels("mediapipe2") \cup GestureLabels("runner")
      \cup GestureLabels("erererere")
\* the step of run that is the state machine
Machine == gpc = "machine" /\ gpc' = "update"

\* C26 (ActionResolver): the action resolved for the label read is its entry
\* in GESTURE_MAPPING if it has one and the sentinel "NONE" otherwise, the
\* neutral label being one that has none; the same holds for every label of
\* any recognizer, with the table of gestix_runner.py as well.
C26_ResolvedActionOrSentinel ==
    /\ gpc = "machine" =>
         /\ label \in DOMAIN GESTURE_MAPPING => action = GESTURE_MAPPING[label]
         /\ label \notin DOMAIN GESTURE_MAPPING => action = "NONE"
    /\ \A x \in AnyLabel :
         /\ x \notin DOMAIN GESTURE_MAPPING =>
              Resolve(GESTURE_MAPPING, x) = "NONE"
         /\ x \notin DOMAIN GESTURE_MAPPING_RUNNER =>
              Resolve(GESTURE_MAPPING_RUNNER, x) = "NONE"
         /\ x \in DOMAIN GESTURE_MAPPING_RUNNER =>
              Resolve(GESTURE_MAPPING_RUNNER, x) = GESTURE_MAPPING_RUNNER[x]

\* no hand in front of the camera: the neutral label resolves to no action
C26_Witness ==
    /\ gpc = "machine"
    /\ shown = "NoHand"
    /\ label = "None"
    /\ action = "NONE"
    /\ game_state = "PLAYING"

\* C27 (restart): when the game is in GAME_OVER and the consumer reads
\* ThumbUp, reset_game runs and the state leaves GAME_OVER.
C27_ThumbUpRestarts ==
    [][(Machine /\ game_state = "GAME_OVER" /\ label = "ThumbUp") =>
         (resets' /\ game_state' # "GAME_OVER")]_vars

\* C28 (pause): a hand with only the index finger extended toggles pause:
\* from PLAYING, or from BOSS_ROOM with its room, the game goes to PAUSED,
\* and from PAUSED it goes back to the state it was paused from.
C28_IndexOnlyTogglesPause ==
    [][(Machine /\ shown = "IndexOnly") =>
         /\ game_state = "PLAYING" => game_state' = "PAUSED"
         /\ (game_state = "BOSS_ROOM" /\ boss_room # "none") =>
              game_state' = "PAUSED"
         /\ game_state = "PAUSED" => game_state' = paused_from]_vars

\* C29 (shield and energy): the shield goes on only in the state machine, on
\* the ULTI action, with energy at least 100 and the shield off, and energy
\* is then 0; ULTI in PLAYING or in a boss room with full energy and the
\* shield off does switch it on; energy stays within 0..100.
C29_ShieldNeedsFullEnergy ==
    /\ [][(~shield_on /\ shield_on') =>
            /\ Machine
            /\ action = "ULTI"
            /\ energy >= ENERGY_FULL
            /\ energy' = 0]_vars
    /\ [][(/\ Machine /\ action = "ULTI"
           /\ game_state \in {"PLAYING", "BOSS_ROOM"}
           /\ game_state = "BOSS_ROOM" => boss_room # "none"
           /\ ~shield_on /\ energy >= ENERGY_FULL) => shield_on']_vars
    /\ [](energy \in 0 .. ENERGY_FULL)

\* the shield has just been switched on in a boss room
C29_Witness ==
    /\ gpc = "update"
    /\ game_state = "BOSS_ROOM"
    /\ boss_room = "BossRoom2"
    /\ shield_on
    /\ energy = 0

\* C30 (boss room): whenever game_state is BOSS_ROOM the boss_room object
\* exists, for every boss phase below MAX_BOSS_PHASE.
C30_BossRoomHasItsRoom ==
    (game_state = "BOSS_ROOM" /\ boss_phase < MAX_BOSS_PHASE) =>
        boss_room # "none"

\* ------------------------------------------- the state machine on any label
\* SpecMachine: GameEngine.run as in SpecGame, except that get_gesture may
\* return any label of the recognizer's enumeration: the state machine is
\* followed for every action of GESTURE_MAPPING, whether or not a hand shape
\* exists that the classifier labels so.

\* run: action = self.poll_gesture_action(), the mailbox holding any label
G_PollLabel ==
    /\ gpc = "top"
    /\ \E x \in GestureLabels("mediapipe2") :
         /\ label' = x
         /\ action' = Resolve(GESTURE_MAPPING, x)
    /\ shown' = "Label"
    /\ resets' = FALSE
    /\ gpc' = "machine"
    /\ UNCHANGED <<game_state, paused_from, energy, shield_on, score,
                   boss_phase, boss_room, portal_fx, boss_triggered, hp,
                   gameRest>>

NextMachine == G_PollLabel \/ G_StateMachine \/ G_Update
SpecMachine == InitGame /\ [][NextMachine]_vars

TOTAL_PAGES == 4
\* SpecStart follows the game while the score is below
\* (StartScore + 1) * BOSS_SCORE_STEP
StartScore == 0

\* the labels the camera thread is observed to vote in a behaviour: the
\* neutral one, a level label, consume-on-read ones
LoopVoted(v) ==
    IF v = "runner" THEN GestureLabels("runner") \cap {"None", "Wave", "Fist", "Open"}
    ELSE FrameRange \cap {"None", "Fist", "Open", "ThumbUp"}

\* what the specifications of this section leave alone
loopRest == <<variant, now, lock, gesture_ts, last_update_ts, ppc, parg, pnow,
              cpc, cg, cts, cret, histVars, obsVars, recVars, cap_opened,
              camera_view, recognizer_ref, tpc, mpc, last_gesture, polled,
              mutated, voteAccess, stoppedBy, setCalls, handed, thumbDx,
              fingerDy, pinchD, baseD, kpc, gateVars>>
engineFields == <<game_state, paused_from, energy, shield_on, score,
                  boss_phase, boss_room, portal_fx, boss_triggered, hp>>

\* SharedState.__init__, IntroScreen.__init__, GameEngine.__init__
InitLoop(v, pc) ==
    /\ ChanInit({v})
    /\ RecAtRest
    /\ LifeAtRest
    /\ ClsAtRest
    /\ GateAtRest
    /\ game_state = "START"
    /\ paused_from = "PLAYING"
    /\ energy = 0
    /\ shield_on = FALSE
    /\ score = 0
    /\ boss_phase = 0
    /\ boss_room = "none"
    /\ portal_fx = FALSE
    /\ boss_triggered = FALSE
    /\ hp = TRUE
    /\ shown = "-"
    /\ action = "-"
    /\ gpc = pc
    /\ resets = FALSE
    /\ intro_last = "-"
    /\ intro_adv = FALSE
    /\ page = 0
    /\ skipped = "-"
    /\ firstTick = FALSE
    /\ got = "-"
    /\ wrote = "-"

\* the history of the writes since the latest read, after a set_gesture that
\* found the label g stored and left g1
Wrote(w, g, g1, effective) ==
    CASE g1 # g -> "other"
      [] effective /\ w = "-" -> "same"
      [] OTHER -> w

\* camera_thread: shared.set_gesture(voted), the whole with block
S_SetGesture ==
    /\ gpc # "ended"
    /\ \E v \in LoopVoted(variant), elapsed \in BOOLEAN :
         LET effective == SetCondElapsed(v, gesture, elapsed)
         IN  /\ gesture' = IF effective THEN v ELSE gesture
             /\ wrote' = Wrote(wrote, gesture, gesture', effective)
    /\ UNCHANGED <<running, label, gameVars, intro_last, intro_adv, page,
                   skipped, firstTick, got, loopRest>>

\* IntroScreen.run, one iteration: _handle_input (events, get_gesture, the
\* two gesture tests), then quit, skip, next page or draw
I_Tick ==
    /\ gpc = "intro"
    /\ \E ev \in {"none", "quit", "next", "esc"}, late \in BOOLEAN :
         LET g == gesture
             elapsed == late \/ ~intro_adv
             byThumb == g = "ThumbUp" /\ intro_last # "ThumbUp" /\ elapsed
             byFist == g = "Fist" /\ intro_last # "Fist" /\ elapsed
             should_next == ev = "next" \/ byThumb
             should_skip_all == ev = "esc" \/ byFist
             last_page == page + 1 >= TOTAL_PAGES
         IN  /\ gesture' = GetReset(g, variant)
             /\ got' = g
             /\ wrote' = "-"
             /\ intro_last' = g
             /\ intro_adv' = (intro_adv \/ byThumb \/ byFist)
             /\ CASE ev = "quit" ->
                       /\ running' = set_running(running, FALSE)
                       /\ gpc' = "ended"
                       /\ skipped' = "quit"
                       /\ UNCHANGED <<page, firstTick>>
                  [] ev # "quit" /\ should_skip_all ->
                       /\ gpc' = "top"
                       /\ skipped' = IF byFist THEN "Fist" ELSE "key"
                       /\ firstTick' = TRUE
                       /\ UNCHANGED <<page, running>>
                  [] ev # "quit" /\ ~should_skip_all /\ should_next ->
                       /\ page' = page + 1
                       /\ gpc' = IF last_page THEN "top" ELSE "intro"
                       /\ skipped' = IF last_page THEN "pages" ELSE skipped
                       /\ firstTick' = last_page
                       /\ UNCHANGED running
                  [] OTHER ->
                       UNCHANGED <<page, gpc, skipped, firstTick, running>>
    /\ UNCHANGED <<label, shown, action, resets, engineFields, loopRest>>

\* GameEngine.run of gestix_runner2.py: the events and
\* action = self.poll_gesture_action(), reading the mailbox
S_Poll ==
    /\ variant = "mediapipe2"
    /\ gpc = "top"
    /\ label' = gesture
    /\ action' = Resolve(GESTURE_MAPPING, gesture)
    /\ gesture' = GetReset(gesture, variant)
    /\ got' = gesture
    /\ wrote' = "-"
    /\ \E quit \in BOOLEAN :
         running' = IF quit THEN set_running(running, FALSE) ELSE running
    /\ shown' = "Mailbox"
    /\ resets' = FALSE
    /\ gpc' = "machine"
    /\ UNCHANGED <<engineFields, intro_last, intro_adv, page, skipped,
                   firstTick, loopRest>>

\* GameEngine.run of gestix_runner2.py: update, draw, the camera window and
\* its ESC key, and the loop test
S_Update ==
    /\ variant = "mediapipe2"
    /\ gpc = "update"
    /\ resets' = FALSE
    /\ firstTick' = FALSE
    /\ Update
    /\ score' <= StartScore
    /\ \E esc \in BOOLEAN :
         /\ running' = IF esc THEN set_running(running, FALSE) ELSE running
         /\ gpc' = IF LoopTest(running') THEN "top" ELSE "ended"
    /\ UNCHANGED <<gesture, label, shown, action, intro_last, intro_adv, page,
                   skipped, got, wrote, loopRest>>

NextStart == S_SetGesture \/ I_Tick \/ S_Poll \/ G_StateMachine \/ S_Update
SpecStart == InitLoop("mediapipe2", "intro") /\ [][NextStart]_vars

\* ------------------------------------------------ intro and start: properties
\* a step that is a get_gesture call of the main thread
PollStep == gpc = "top" /\ gpc' = "machine"
IntroStep == gpc = "intro" /\ got' = gesture /\ intro_last' = gesture /\ wrote' = "-"
GetStep == IntroStep \/ PollStep

\* C37: Fist is not consume-on-read, so a get_gesture that returns Fist
\* leaves it in the mailbox.  When the intro is skipped with a Fist and no
\* other label is written meanwhile, the first iteration of GameEngine.run
\* reads Fist again and moves START to PLAYING; a Fist read in GAME_OVER
\* resets the game to START, and the next iteration, reading the same Fist,
\* moves it to PLAYING.
C37_FistStartsTheGame ==
    /\ [][(GetStep /\ gesture = "Fist") => (got' = "Fist" /\ gesture' = "Fist")]_vars
    /\ [][(gpc = "intro" /\ skipped' = "Fist") =>
            (got' = "Fist" /\ gpc' = "top" /\ firstTick' /\ game_state' = "START")]_vars
    /\ [][(PollStep /\ got = "Fist" /\ wrote # "other") =>
            (label' = "Fist" /\ action' = "START_GAME")]_vars
    /\ [][(Machine /\ label = "Fist" /\ game_state = "START") =>
            game_state' = "PLAYING"]_vars
    /\ [][(Machine /\ label = "Fist" /\ game_state = "GAME_OVER") =>
            (resets' /\ game_state' = "START" /\ gesture' = gesture)]_vars
    /\ [][(gpc = "update" /\ gpc' # gpc /\ game_state = "START") =>
            game_state' = "START"]_vars
    /\ [](firstTick /\ gpc \in {"top", "machine"} => game_state = "START")

\* the intro was skipped with a Fist, nothing was written since, and the
\* first iteration of GameEngine.run has moved the game to PLAYING
C37_Witness ==
    /\ skipped = "Fist"
    /\ firstTick
    /\ gpc = "update"
    /\ got = "Fist"
    /\ wrote = "-"
    /\ gesture = "Fist"
    /\ game_state = "PLAYING"

\* ------------------------------------------------ gestix_runner.py: SpecWave
\* GameEngine.reset_game of gestix_runner.py: the fields followed here
ResetRunner ==
    /\ score' = 0
    /\ game_state' = "START"
    /\ resets' = TRUE

\* GameEngine.handle_input of gestix_runner.py: get_gesture, the action, the
\* state machine, the keyboard (QUIT, ESC)
H_HandleInput ==
    /\ variant = "runner"
    /\ gpc = "top"
    /\ LET a == Resolve(GESTURE_MAPPING_RUNNER, gesture)
       IN  /\ label' = gesture
           /\ action' = a
           /\ CASE game_state = "START" /\ a = "START_GAME" ->
                     game_state' = "PLAYING" /\ UNCHANGED <<score, resets>>
                [] game_state = "PLAYING" /\ a = "PAUSE_TOGGLE" ->
                     game_state' = "PAUSED" /\ UNCHANGED <<score, resets>>
                [] game_state = "PAUSED" /\ a = "PAUSE_TOGGLE" ->
                     game_state' = "PLAYING" /\ UNCHANGED <<score, resets>>
                [] game_state = "GAME_OVER" /\ a = "RESTART" -> ResetRunner
                [] OTHER -> UNCHANGED <<game_state, score, resets>>
    /\ gesture' = GetReset(gesture, variant)
    /\ got' = gesture
    /\ wrote' = "-"
    /\ \E quit \in BOOLEAN :
         running' = IF quit THEN set_running(running, FALSE) ELSE running
    /\ shown' = "Mailbox"
    /\ gpc' = "update"
    /\ UNCHANGED <<paused_from, energy, shield_on, boss_phase, boss_room,
                   portal_fx, boss_triggered, hp, intro_last, intro_adv, page,
                   skipped, firstTick, loopRest>>

\* GameEngine.run of gestix_runner.py after handle_input: update (coins and
\* enemies in PLAYING), draw, the camera window and its ESC key, the loop test
H_Update ==
    /\ variant = "runner"
    /\ gpc = "update"
    /\ resets' = FALSE
    /\ IF game_state = "PLAYING"
       THEN \E gain \in 0 .. 1, hit \in BOOLEAN :
              /\ score' = IF score + gain <= MaxScore THEN score + gain ELSE score
              /\ game_state' = IF hit THEN "GAME_OVER" ELSE game_state
       ELSE UNCHANGED <<score, game_state>>
    /\ \E esc \in BOOLEAN :
         /\ running' = IF esc THEN set_running(running, FALSE) ELSE running
         /\ gpc' = IF LoopTest(running') THEN "top" ELSE "ended"
    /\ UNCHANGED <<gesture, label, shown, action, paused_from, energy,
                   shield_on, boss_phase, boss_room, portal_fx, boss_triggered,
                   hp, loopVars, loopRest>>

NextWave == S_SetGesture \/ H_HandleInput \/ H_Update
SpecWave == InitLoop("runner", "top") /\ [][NextWave]_vars

\* C31 (gestix_runner.py): once a Wave has paused the game, the game stays
\* PAUSED on the consumer ticks that follow for as long as the producer
\* writes nothing: one write of Wave causes at most one PAUSE_TOGGLE.
C31_OneWaveOneToggle ==
    [][(/\ variant = "runner"
        /\ gpc = "top" /\ gpc' = "update"
        /\ game_state = "PAUSED"
        /\ wrote = "-") => game_state' = "PAUSED"]_vars

\* ================================================ the write gate of erererere
\* SpecGate: camera_thread of erererere.py from the smoothed label on (the
\* gate, set_gesture, last_gesture and last_update) and one reader calling
\* get_gesture, on a clock in centiseconds that may have advanced at each
\* time.time().  The producer is taken to complete a frame at least every
\* FRAME_PERIOD: the clock never passes the latest evaluation of the gate by
\* more than that.  The with blocks are single steps.

\* if ... (time.time() - last_update) > 0.25
GATE_AFTER == 25
\* the longest time between two evaluations of the gate
FRAME_PERIOD == 35
\* the clock runs to Epoch + GateHorizon
GateHorizon == 70
\* the resolution of the clock
Tick == 5
\* by how much the clock may have advanced when it is read
GateSteps == {0, Tick, GATE_AFTER, FRAME_PERIOD}

GateClock(t, f) ==
    {u \in {t + d : d \in GateSteps} :
        u <= f + FRAME_PERIOD /\ u <= Epoch + GateHorizon}
\* between two statements of one iteration or of one call the clock advances
\* by at most one tick
TickClock(t, f) == {u \in GateClock(t, f) : u <= t + Tick}

\* if smoothed != last_gesture or (time.time() - last_update) > 0.25
GateOnChangeOnly(s, last, t, lu) == s # last
GateOpen(s, last, t, lu) == s # last \/ t - lu > GATE_AFTER

gateRest == <<variant, lock, gesture_ts, ppc, parg, pnow, cpc, cg, cts, cret,
              histVars, obsVars, recVars, running, cap_opened, camera_view,
              recognizer_ref, tpc, mpc, polled, mutated, voteAccess,
              stoppedBy, setCalls, clsVars, gameVars, loopVars>>

\* SharedState.__init__; camera_thread up to its loop: last_gesture = "NONE",
\* last_update = time.time()
InitGate ==
    /\ ChanInit({"erererere"})
    /\ RecAtRest
    /\ ClsAtRest
    /\ GameAtRest
    /\ LoopAtRest
    /\ running = TRUE
    /\ cap_opened = TRUE
    /\ camera_view = FALSE
    /\ recognizer_ref = FALSE
    /\ tpc = "off"
    /\ mpc = "off"
    /\ polled = "-"
    /\ mutated = FALSE
    /\ voteAccess = {}
    /\ stoppedBy = "-"
    /\ setCalls = FALSE
    /\ last_gesture = "NONE"
    /\ smoothed = "NONE"
    /\ last_update = Epoch
    /\ frame_t = Epoch
    /\ wpc = "frame"
    /\ qpc = "idle"
    /\ qg = "-"
    /\ qts = 0
    /\ qret = "-"
    /\ qheld = FALSE

\* camera_thread: a frame is read and classified, smoothed is computed and
\* the gate is evaluated
W_Frame ==
    /\ wpc = "frame"
    /\ \E s \in Voted(variant), t \in GateClock(now, frame_t) :
         /\ smoothed' = s
         /\ now' = t
         /\ frame_t' = t
         /\ wpc' = IF GateOpen(s, last_gesture, t, last_update)
                   THEN "set" ELSE "frame"
         /\ qheld' = (qheld /\ s = smoothed)
    /\ UNCHANGED <<gesture, last_update_ts, last_gesture, last_update, qpc, qg,
                   qts, qret, gateRest>>

\* shared.set_gesture(smoothed): self._gesture = g,
\* self._last_update_ts = time.time()
W_SetGesture ==
    /\ wpc = "set"
    /\ gesture' = smoothed
    /\ \E t \in TickClock(now, frame_t) :
         now' = t /\ last_update_ts' = t
    /\ wpc' = "stamp"
    /\ UNCHANGED <<smoothed, last_gesture, last_update, frame_t, qpc, qg, qts,
                   qret, qheld, gateRest>>

\* last_gesture = smoothed; last_update = time.time()
W_Stamp ==
    /\ wpc = "stamp"
    /\ last_gesture' = smoothed
    /\ \E t \in TickClock(now, frame_t) :
         now' = t /\ last_update' = t
    /\ wpc' = "frame"
    /\ UNCHANGED <<gesture, last_update_ts, smoothed, frame_t, qpc, qg, qts,
                   qret, qheld, gateRest>>

\* get_gesture: with self._lock: g = self._gesture; ts = self._last_update_ts
Q_Read ==
    /\ qpc = "idle"
    /\ qg' = gesture
    /\ qts' = last_update_ts
    /\ qheld' = (gesture # "NONE" /\ gesture = smoothed)
    /\ qpc' = "check"
    /\ UNCHANGED <<now, gesture, last_update_ts, last_gesture, smoothed,
                   last_update, frame_t, wpc, qret, gateRest>>

\* get_gesture: if time.time() - ts > 0.6: return "NONE"; return g
Q_Check ==
    /\ qpc = "check"
    /\ \E t \in TickClock(now, frame_t) :
         now' = t /\ qret' = StaleResult(qg, qts, t)
    /\ qpc' = "idle"
    /\ UNCHANGED <<gesture, last_update_ts, last_gesture, smoothed,
                   last_update, frame_t, wpc, qg, qts, qheld, gateRest>>

NextGate == W_Frame \/ W_SetGesture \/ W_Stamp \/ Q_Read \/ Q_Check
SpecGate == InitGate /\ [][NextGate]_vars

\* ----------------------------------------------------- write gate: properties
GateStep == wpc = "frame" /\ wpc' \in {"frame", "set"} /\ qpc' = qpc
CheckStep == qpc = "check" /\ qpc' = "idle"

\* C38 as claimed: the producer calls set_gesture only when the smoothed
\* label differs from the last written one or more than 0.25 s have passed
\* since its last write; and, the producer completing a frame at least every
\* 0.35 s, no get_gesture reports a held non-neutral label as neutral.
C38_AsClaimed ==
    /\ [][(wpc = "frame" /\ wpc' = "set") =>
            (smoothed' # last_gesture \/ now' - last_update > GATE_AFTER)]_vars
    /\ [][(CheckStep /\ qheld) => qret' # "NONE"]_vars

\* C38, amended: the producer calls set_gesture exactly when the smoothed
\* label differs from the last written one or its clock reads more than
\* 0.25 s after last_update; with a frame at least every 0.35 s the gate
\* asks for a write at most 0.6 s after last_update; and get_gesture reports
\* a held non-neutral label as neutral exactly when its clock reads more than
\* 0.6 s after the timestamp it read, and reports the label itself otherwise.
C38_GateAndStaleness ==
    /\ [][GateStep =>
            (wpc' = "set" <=> (\/ smoothed' # last_gesture
                              \/ now' - last_update > GATE_AFTER))]_vars
    /\ [](frame_t - last_update <= GATE_AFTER + FRAME_PERIOD)
    /\ [][(CheckStep /\ qheld) =>
            /\ qret' = "NONE" <=> now' - qts > STALE_AFTER
            /\ qret' # "NONE" => (qret' = qg /\ qret' = smoothed)]_vars

\* a held label was read just before its refresh and came back neutral
C38_Witness ==
    /\ variant = "erererere"
    /\ qpc = "idle"
    /\ qheld
    /\ qg \in {"Fist", "Open"}
    /\ qg = smoothed
    /\ qret = "NONE"
    /\ wpc = "set"
    /\ frame_t - last_update > GATE_AFTER

====
